---------------------------- MODULE Spec2Model ----------------------------
(***************************************************************************)
(* The uevent router of the container manager daemon (daemon/uevent.c):    *)
(* the event codec (uevent_parse, uevent_replace_member), the two routing  *)
(* tables (USB by vendor/product/serial, NIC by MAC), the USB dispatcher,  *)
(* the device-node projector, the NIC mover with its 100 ms timer and the  *)
(* top-level netlink read callback.                                        *)
(*                                                                         *)
(* A frame is a buffer of bytes (0..255).  Offsets are 0-based as in C:    *)
(* byte p of a uevent u is u.raw[p+1].  A char pointer into msg.raw is the *)
(* offset it points at.                                                    *)
(***************************************************************************)
EXTENDS Integers, Sequences, FiniteSets, Bags, TLC

(***************************************************************************)
(* Bytes, pointers and C strings                                           *)
(***************************************************************************)

\* the C string terminator '\0'
NUL == 0

\* marker for a byte of memory that mem_new (malloc) returned and nothing wrote
UNINIT == 256

\* a char * that points at the string literal "" (uevent_parse's defaults)
EMPTY == -1

\* a char * that is NULL (a member of a struct allocated by mem_new0)
NULLP == -2

\* a char * member of a struct allocated by mem_new that nothing has set
UNINITP == -3

\* no struct uevent: what a function returning struct uevent * returns on error
NULLEV == [null |-> TRUE]

IsNull(e) == "null" \in DOMAIN e

Min(a, b) == IF a < b THEN a ELSE b

Max(a, b) == IF a > b THEN a ELSE b

\* the keys uevent_parse recognises
K_ACTION == <<65, 67, 84, 73, 79, 78, 61>>  \* "ACTION="
K_DEVPATH == <<68, 69, 86, 80, 65, 84, 72, 61>>  \* "DEVPATH="
K_SUBSYSTEM == <<83, 85, 66, 83, 89, 83, 84, 69, 77, 61>>  \* "SUBSYSTEM="
K_MAJOR == <<77, 65, 74, 79, 82, 61>>  \* "MAJOR="
K_MINOR == <<77, 73, 78, 79, 82, 61>>  \* "MINOR="
K_DEVNAME == <<68, 69, 86, 78, 65, 77, 69, 61>>  \* "DEVNAME="
K_DEVTYPE == <<68, 69, 86, 84, 89, 80, 69, 61>>  \* "DEVTYPE="
K_DRIVER == <<68, 82, 73, 86, 69, 82, 61>>  \* "DRIVER="
K_PRODUCT == <<80, 82, 79, 68, 85, 67, 84, 61>>  \* "PRODUCT="
K_ID_VENDOR_ID == <<73, 68, 95, 86, 69, 78, 68, 79, 82, 95, 73, 68, 61>>  \* "ID_VENDOR_ID="
K_ID_MODEL_ID == <<73, 68, 95, 77, 79, 68, 69, 76, 95, 73, 68, 61>>  \* "ID_MODEL_ID="
K_ID_SERIAL_SHORT == <<73, 68, 95, 83, 69, 82, 73, 65, 76, 95, 83, 72, 79, 82, 84, 61>>  \* "ID_SERIAL_SHORT="
K_INTERFACE == <<73, 78, 84, 69, 82, 70, 65, 67, 69, 61>>  \* "INTERFACE="
K_SYNTH_UUID == <<83, 89, 78, 84, 72, 95, 85, 85, 73, 68, 61>>  \* "SYNTH_UUID="

\* the string literals the handlers compare against
S_add == <<97, 100, 100>>  \* "add"
S_remove == <<114, 101, 109, 111, 118, 101>>  \* "remove"
S_change == <<99, 104, 97, 110, 103, 101>>  \* "change"
S_usb == <<117, 115, 98>>  \* "usb"
S_usb_device == <<117, 115, 98, 95, 100, 101, 118, 105, 99, 101>>  \* "usb_device"
S_net == <<110, 101, 116>>  \* "net"
S_wlan == <<119, 108, 97, 110>>  \* "wlan"
S_eth == <<101, 116, 104>>  \* "eth"
S_virtual == <<118, 105, 114, 116, 117, 97, 108>>  \* "virtual"
S_libudev == <<108, 105, 98, 117, 100, 101, 118>>  \* "libudev"
S_zero == <<48>>  \* "0"
S_cml == <<99, 109, 108>>  \* "cml"
S_dev == <<47, 100, 101, 118, 47>>  \* "/dev/"
S_disk == <<100, 105, 115, 107>>  \* "disk"

\* byte p of the buffer of u; beyond the bytes written so far it is what the
\* allocator left there: 0 after mem_new0, UNINIT after mem_new
ByteAt(u, p) == IF p < Len(u.raw) THEN u.raw[p + 1] ELSE u.fill

\* memcpy out of the buffer: n bytes from offset p
BufRead(u, p, n) ==
    IF p + n <= Len(u.raw) THEN SubSeq(u.raw, p + 1, p + n)
    ELSE [i \in 1..n |-> ByteAt(u, p + i - 1)]

\* memcpy / strcpy into the buffer: bytes written at offset p
BufWrite(u, p, bytes) ==
    LET n == Max(Len(u.raw), p + Len(bytes))
    IN [u EXCEPT !.raw = [i \in 1..n |->
            IF i - 1 >= p /\ i - 1 < p + Len(bytes) THEN bytes[i - p]
            ELSE IF i <= Len(u.raw) THEN u.raw[i] ELSE u.fill]]

\* strlen(raw + p): the scan stops at the first NUL; the first byte behind the
\* written part of a zeroed buffer is a NUL
strlen_at(u, p) ==
    IF \A i \in (p + 1)..Len(u.raw) : u.raw[i] # NUL THEN Max(0, Len(u.raw) - p)
    ELSE (CHOOSE i \in (p + 1)..Len(u.raw) : u.raw[i] = NUL
                                              /\ \A j \in (p + 1)..(i - 1) : u.raw[j] # NUL)
         - (p + 1)

\* the C string that starts at offset p (without its NUL)
CStrAt(u, p) == SubSeq(u.raw, p + 1, p + strlen_at(u, p))

\* the C string a char * member points at
StrOf(u, ptr) == IF ptr < 0 THEN <<>> ELSE CStrAt(u, ptr)

\* the first n characters of a C string, as strncmp sees them
Take(s, n) == SubSeq(s, 1, Min(n, Len(s)))

\* strncmp(a, b, n) == 0
strncmp_eq(a, b, n) == Take(a, n) = Take(b, n)

\* strcmp(a, b) == 0
strcmp_eq(a, b) == a = b

\* strstr(h, n): the offset of the first occurrence of n in h, -1 for NULL
strstr(h, n) ==
    LET hits == {i \in 0..(Len(h) - Len(n)) : SubSeq(h, i + 1, i + Len(n)) = n}
    IN IF hits = {} THEN -1 ELSE CHOOSE i \in hits : \A j \in hits : i <= j

\* strchr(s, c) != NULL
strchr_found(s, c) == \E i \in 1..Len(s) : s[i] = c

IsDigit(c) == c \in 48..57

IsSpace(c) == c \in {32, 9, 10, 11, 12, 13}

HexVal(c) ==
    IF c \in 48..57 THEN c - 48
    ELSE IF c \in 97..102 THEN c - 87
    ELSE IF c \in 65..70 THEN c - 55
    ELSE -1

RECURSIVE SkipSpace(_, _)
SkipSpace(s, i) == IF i <= Len(s) /\ IsSpace(s[i]) THEN SkipSpace(s, i + 1) ELSE i

RECURSIVE DecDigits(_, _, _)
DecDigits(s, i, acc) ==
    IF i <= Len(s) /\ IsDigit(s[i]) THEN DecDigits(s, i + 1, acc * 10 + (s[i] - 48))
    ELSE acc

\* atoi(s): leading white space, an optional sign, then decimal digits
atoi(s) ==
    LET i == SkipSpace(s, 1)
        neg == i <= Len(s) /\ s[i] = 45
        j == IF i <= Len(s) /\ s[i] \in {43, 45} THEN i + 1 ELSE i
        v == DecDigits(s, j, 0)
    IN IF neg THEN 0 - v ELSE v

\* the hexadecimal number that starts at s[i]: <<value, index behind it>>,
\* value -1 when no hexadecimal digit is there
RECURSIVE HexDigits(_, _, _, _)
HexDigits(s, i, acc, any) ==
    IF i <= Len(s) /\ HexVal(s[i]) >= 0
    THEN HexDigits(s, i + 1, acc * 16 + HexVal(s[i]), TRUE)
    ELSE <<IF any THEN acc ELSE -1, i>>

\* one %hx conversion of sscanf at s[i]: white space, an optional 0x, digits;
\* the value is stored into an unsigned short
scan_hx(s, i) ==
    LET j == SkipSpace(s, i)
        k == IF j + 2 <= Len(s) /\ s[j] = 48 /\ s[j + 1] \in {120, 88}
                  /\ HexVal(s[j + 2]) >= 0
             THEN j + 2 ELSE j
        r == HexDigits(s, k, 0, FALSE)
    IN <<IF r[1] < 0 THEN -1 ELSE r[1] % 65536, r[2]>>


(***************************************************************************)
(* struct uevent and the event codec                                       *)
(***************************************************************************)

\* sizeof(struct udev_monitor_netlink_header): prefix[8] and eight unsigned int
NLH_SIZE == 40

\* offsetof(struct udev_monitor_netlink_header, magic)
NLH_MAGIC_OFF == 8

\* offsetof(struct udev_monitor_netlink_header, properties_off)
NLH_PROPERTIES_OFF_OFF == 16

\* offsetof(struct udev_monitor_netlink_header, properties_len)
NLH_PROPERTIES_LEN_OFF == 20

\* an unsigned int member of the header, read from the bytes it overlays (the
\* union msg shares them with raw; the host is little-endian), as the pair
\* <<low 16 bits, high 16 bits>>
U32At(u, p) ==
    <<ByteAt(u, p) + 256 * ByteAt(u, p + 1), ByteAt(u, p + 2) + 256 * ByteAt(u, p + 3)>>

\* unsigned int + int, modulo 2^32
U32Add(v, d) ==
    LET lo == v[1] + d
    IN <<lo % 65536, (v[2] + (lo \div 65536)) % 65536>>

\* the four bytes of an unsigned int
U32Bytes(v) == <<v[1] % 256, v[1] \div 256, v[2] % 256, v[2] \div 256>>

\* an unsigned int compared with a length below 2^16: v > n
U32Gt(v, n) == v[2] > 0 \/ v[1] > n

\* htonl(UDEV_MONITOR_MAGIC) in memory: the bytes fe ed ca fe
UDEV_MONITOR_MAGIC_NET == <<254, 237, 202, 254>>

\* a struct uevent as mem_new0 returns it, with bytes received into msg.raw
uevent_new0(bytes, len) ==
    [raw |-> bytes, fill |-> 0, msg_len |-> len,
     action |-> NULLP, subsystem |-> NULLP, devname |-> NULLP, devpath |-> NULLP,
     devtype |-> NULLP, driver |-> NULLP, major |-> 0, minor |-> 0, type |-> NULLP,
     product |-> NULLP, id_vendor_id |-> 0, id_model_id |-> 0,
     id_serial_short |-> NULLP, interface |-> NULLP, synth_uuid |-> NULLP]

\* a struct uevent as mem_new returns it: nothing is initialised
uevent_new ==
    [raw |-> <<>>, fill |-> UNINIT, msg_len |-> 0,
     action |-> UNINITP, subsystem |-> UNINITP, devname |-> UNINITP,
     devpath |-> UNINITP, devtype |-> UNINITP, driver |-> UNINITP, major |-> 0,
     minor |-> 0, type |-> UNINITP, product |-> UNINITP, id_vendor_id |-> 0,
     id_model_id |-> 0, id_serial_short |-> UNINITP, interface |-> UNINITP,
     synth_uuid |-> UNINITP]

\* strncmp(raw_p, key, strlen(key)) == 0 at offset p
HasKey(u, p, key) == \A i \in 1..Len(key) : ByteAt(u, p + i - 1) = key[i]

\* one entry of the property stream at offset p: the if / else-if chain
parse_entry(u, p) ==
    IF HasKey(u, p, K_ACTION) THEN [u EXCEPT !.action = p + 7]
    ELSE IF HasKey(u, p, K_DEVPATH) THEN [u EXCEPT !.devpath = p + 8]
    ELSE IF HasKey(u, p, K_SUBSYSTEM) THEN [u EXCEPT !.subsystem = p + 10]
    ELSE IF HasKey(u, p, K_MAJOR) THEN [u EXCEPT !.major = atoi(CStrAt(u, p + 6))]
    ELSE IF HasKey(u, p, K_MINOR) THEN [u EXCEPT !.minor = atoi(CStrAt(u, p + 6))]
    ELSE IF HasKey(u, p, K_DEVNAME) THEN [u EXCEPT !.devname = p + 8]
    ELSE IF HasKey(u, p, K_DEVTYPE) THEN [u EXCEPT !.devtype = p + 8]
    ELSE IF HasKey(u, p, K_DRIVER) THEN [u EXCEPT !.driver = p + 7]
    ELSE IF HasKey(u, p, K_PRODUCT) THEN [u EXCEPT !.product = p + 8]
    ELSE IF HasKey(u, p, K_ID_VENDOR_ID)
    THEN LET r == scan_hx(CStrAt(u, p + 13), 1)
         IN IF r[1] < 0 THEN u ELSE [u EXCEPT !.id_vendor_id = r[1]]
    ELSE IF HasKey(u, p, K_ID_MODEL_ID)
    THEN LET r == scan_hx(CStrAt(u, p + 12), 1)
         IN IF r[1] < 0 THEN u ELSE [u EXCEPT !.id_model_id = r[1]]
    ELSE IF HasKey(u, p, K_ID_SERIAL_SHORT) THEN [u EXCEPT !.id_serial_short = p + 16]
    ELSE IF HasKey(u, p, K_INTERFACE) THEN [u EXCEPT !.interface = p + 10]
    ELSE IF HasKey(u, p, K_SYNTH_UUID) THEN [u EXCEPT !.synth_uuid = p + 11]
    ELSE u

\* the while (*raw_p) loop: an entry, then on to behind its NUL, until the
\* message ended
RECURSIVE parse_loop(_, _)
parse_loop(u, p) ==
    IF ByteAt(u, p) = NUL THEN u
    ELSE LET u1 == parse_entry(u, p)
             next == p + strlen_at(u, p) + 1
         IN IF next >= u.msg_len THEN u1 ELSE parse_loop(u1, next)

\* uevent_parse(uevent, raw_p): the members are reset (driver and type are
\* not among them), then set from the entries found from raw_p on
uevent_parse(u, raw_p) ==
    parse_loop([u EXCEPT !.action = EMPTY, !.devpath = EMPTY, !.devname = EMPTY,
                         !.devtype = EMPTY, !.major = -1, !.minor = -1,
                         !.subsystem = EMPTY, !.product = EMPTY,
                         !.id_model_id = 0, !.id_vendor_id = 0,
                         !.id_serial_short = EMPTY, !.interface = EMPTY,
                         !.synth_uuid = EMPTY], raw_p)

\* a rewrite whose tail copy starts at the NUL of the old member
uevent_replace_member_nul(u, oldmember, newmember) ==
    LET diff_len == Len(newmember) - strlen_at(u, oldmember)
        e0 == [uevent_new EXCEPT !.msg_len = u.msg_len + diff_len]
        e1 == BufWrite(e0, 0, BufRead(u, 0, NLH_SIZE))
        e3 == BufWrite(e1, 0, BufRead(u, 0, oldmember))
        e4 == BufWrite(e3, oldmember, newmember \o <<NUL>>)
        off_after_old == oldmember + strlen_at(u, oldmember)
        off_after_new == oldmember + Len(newmember) + 1
        e5 == BufWrite(e4, off_after_new,
                       BufRead(u, off_after_old, u.msg_len - off_after_old - 1))
    IN uevent_parse(e5, 0)

\* a rewrite that leaves msg_len as it was
uevent_replace_member_len(u, oldmember, newmember) ==
    LET e0 == [uevent_new EXCEPT !.msg_len = u.msg_len]
        e1 == BufWrite(e0, 0, BufRead(u, 0, NLH_SIZE))
        e3 == BufWrite(e1, 0, BufRead(u, 0, oldmember))
        e4 == BufWrite(e3, oldmember, newmember \o <<NUL>>)
        off_after_old == oldmember + strlen_at(u, oldmember) + 1
        off_after_new == oldmember + Len(newmember) + 1
        e5 == BufWrite(e4, off_after_new,
                       BufRead(u, off_after_old, u.msg_len - off_after_old))
    IN uevent_parse(e5, 0)

\* uevent_replace_member(uevent, oldmember, newmember): oldmember is a pointer
\* into uevent->msg.raw, newmember a C string.  memcpy, strcpy return their
\* destination, so no error branch is taken.
uevent_replace_member(u, oldmember, newmember) ==
    LET diff_len == Len(newmember) - strlen_at(u, oldmember)
        e0 == [uevent_new EXCEPT !.msg_len = u.msg_len + diff_len]
        \* copy netlink header to cloned uevent
        e1 == BufWrite(e0, 0, BufRead(u, 0, NLH_SIZE))
        e2 == BufWrite(e1, NLH_PROPERTIES_LEN_OFF,
                       U32Bytes(U32Add(U32At(u, NLH_PROPERTIES_LEN_OFF), diff_len)))
        \* copy uevent up to position of interface string
        off_member == oldmember
        e3 == BufWrite(e2, 0, BufRead(u, 0, off_member))
        \* copy new member to uevent
        e4 == BufWrite(e3, off_member, newmember \o <<NUL>>)
        \* copy uevent after interface string
        off_after_old == off_member + strlen_at(u, oldmember) + 1
        off_after_new == off_member + Len(newmember) + 1
        e5 == BufWrite(e4, off_after_new,
                       BufRead(u, off_after_old, u.msg_len - off_after_old))
    IN uevent_parse(e5, 0)

\* uevent_replace_devpath_new(str, oldstr, newstr): str with its first
\* occurrence of oldstr replaced; <<FALSE, <<>>>> stands for NULL
uevent_replace_devpath_new(str, oldstr, newstr) ==
    LET off_old == strstr(str, oldstr)
    IN IF off_old < 0 THEN <<FALSE, <<>>>>
       ELSE <<TRUE, SubSeq(str, 1, off_old) \o newstr
                    \o SubSeq(str, off_old + Len(oldstr) + 1, Len(str))>>


(***************************************************************************)
(* The state of the router                                                 *)
(***************************************************************************)

VARIABLES
    uevent_netlink_sock,                  \* "NULL" or "open"
    uevent_io_event,                      \* "NULL" or "installed"
    uevent_container_dev_mapping_list,    \* the USB table: a list of mappings
    uevent_container_netdev_mapping_list, \* the NET table: a list of mappings
    cmld_wlan_idx,                        \* static counter of uevent_rename_ifi_new
    cmld_eth_idx,                         \* static counter of uevent_rename_ifi_new
    timers,                               \* the armed NIC timers: a bag of their uevent_cb
    container_state,                      \* the registry: state of each container
    last                                  \* the last call: its inputs, result and effects

vars == <<uevent_netlink_sock, uevent_io_event, uevent_container_dev_mapping_list,
          uevent_container_netdev_mapping_list, cmld_wlan_idx, cmld_eth_idx, timers,
          container_state, last>>

\* the containers of the registry, in cmld_container_get_by_index order; the
\* first is c0, the one cmld_containers_get_c0 returns
ContainerSeq == <<"c0", "c1">>

Containers == {ContainerSeq[i] : i \in DOMAIN ContainerSeq}

\* container_get_state's values that the router tells apart, and "NONE" for a
\* container the registry does not hold
ContainerStates == {"NONE", "STOPPED", "STARTING", "BOOTING", "RUNNING", "SETUP"}

\* one effect of a call on a collaborator (cgroups, token, filesystem, event
\* loop, injector child), as recorded in last.log
Eff(call, args) == [call |-> call, args |-> args]

(***************************************************************************)
(* Routing tables                                                          *)
(***************************************************************************)

\* uevent_usbdev_new(type, id_vendor, id_product, i_serial, assign)
uevent_usbdev_new(type, id_vendor, id_product, i_serial, assign) ==
    [type |-> type, id_vendor |-> id_vendor, id_product |-> id_product,
     i_serial |-> i_serial, assign |-> assign, major |-> -1, minor |-> -1]

\* uevent_usbdev_set_major and uevent_usbdev_set_minor
uevent_usbdev_set_major_minor(usbdev, major, minor) ==
    [usbdev EXCEPT !.major = major, !.minor = minor]

\* uevent_container_dev_mapping_new(container, usbdev): mem_new0 leaves the
\* mapping's own assign member false; only the copy of the usbdev takes
\* usbdev->assign
uevent_container_dev_mapping_new(container, usbdev) ==
    [container |-> container,
     usbdev |-> [i_serial |-> usbdev.i_serial, id_vendor |-> usbdev.id_vendor,
                 id_product |-> usbdev.id_product, major |-> usbdev.major,
                 minor |-> usbdev.minor, assign |-> usbdev.assign],
     assign |-> FALSE]

\* list_append(list, data)
list_append(list, data) == Append(list, data)

\* list_remove(list, data) for the element at index i (data is a pointer: it
\* names one element)
list_remove_at(list, i) == SubSeq(list, 1, i - 1) \o SubSeq(list, i + 1, Len(list))

\* the greatest index of a set of indices; 0 for the empty set
LastOf(hits) == IF hits = {} THEN 0 ELSE CHOOSE i \in hits : \A j \in hits : j <= i

\* uevent_register_usbdevice(container, usbdev): the new table
register_usbdevice(list, container, usbdev) ==
    list_append(list, uevent_container_dev_mapping_new(container, usbdev))

usb_identity_eq(mapping, container, usbdev) ==
    /\ mapping.container = container
    /\ mapping.usbdev.id_vendor = usbdev.id_vendor
    /\ mapping.usbdev.id_product = usbdev.id_product
    /\ strcmp_eq(mapping.usbdev.i_serial, usbdev.i_serial)

\* a search loop that breaks at its first match
usb_mapping_to_remove_first(list, container, usbdev) ==
    LET hits == {i \in DOMAIN list : usb_identity_eq(list[i], container, usbdev)}
    IN IF hits = {} THEN 0 ELSE CHOOSE i \in hits : \A j \in hits : i <= j

\* the search loop of uevent_unregister_usbdevice: every match overwrites
\* mapping_to_remove, so it ends with the last one; 0 for NULL
usb_mapping_to_remove(list, container, usbdev) ==
    LastOf({i \in DOMAIN list : usb_identity_eq(list[i], container, usbdev)})

\* uevent_unregister_usbdevice(container, usbdev): <<return value, new table>>
unregister_usbdevice(list, container, usbdev) ==
    LET i == usb_mapping_to_remove(list, container, usbdev)
    IN IF i = 0 THEN <<-1, list>> ELSE <<0, list_remove_at(list, i)>>

\* network_str_to_mac_addr(pnet_cfg->pnet_name, mac): a configuration names
\* its interface by MAC string or by interface name; only a MAC string converts
network_str_to_mac_addr(pnet_name) ==
    IF pnet_name.is_mac THEN <<0, pnet_name.mac>> ELSE <<-1, "none">>

\* uevent_container_netdev_mapping_new(container, pnet_cfg): NULLEV-like
\* <<FALSE, ..>> for NULL
uevent_container_netdev_mapping_new(container, pnet_cfg) ==
    LET r == network_str_to_mac_addr(pnet_cfg.pnet_name)
    IN IF r[1] = -1 THEN <<FALSE, [container |-> container, pnet_cfg |-> pnet_cfg, mac |-> "none"]>>
       ELSE <<TRUE, [container |-> container, pnet_cfg |-> pnet_cfg, mac |-> r[2]]>>

\* uevent_register_netdev(container, pnet_cfg): <<return value, new table>>
register_netdev(list, container, pnet_cfg) ==
    LET m == uevent_container_netdev_mapping_new(container, pnet_cfg)
    IN IF ~m[1] THEN <<-1, list>> ELSE <<0, list_append(list, m[2])>>

\* the search loop of uevent_unregister_netdev
net_mapping_to_remove(list, container, mac) ==
    LastOf({i \in DOMAIN list : list[i].container = container /\ list[i].mac = mac})

\* uevent_unregister_netdev(container, mac): <<return value, new table>>
unregister_netdev(list, container, mac) ==
    LET i == net_mapping_to_remove(list, container, mac)
    IN IF i = 0 THEN <<-1, list>> ELSE <<0, list_remove_at(list, i)>>


(***************************************************************************)
(* Collaborators: the container registry                                   *)
(***************************************************************************)

\* uuid_string(container_get_uuid(c)): 36 characters, 8-4-4-4-12
UuidDigits(d) == [i \in 1..36 |-> IF i \in {9, 14, 19, 24} THEN 45 ELSE d]

ContainerUuid(c) == IF c = "c0" THEN UuidDigits(48) ELSE UuidDigits(49)

\* uuid_new(str) != NULL: str has the form of a UUID
uuid_new_ok(str) ==
    /\ Len(str) = 36
    /\ \A i \in 1..36 : IF i \in {9, 14, 19, 24} THEN str[i] = 45 ELSE HexVal(str[i]) >= 0

\* the containers the registry holds, in index order
Registered(cstate) == SelectSeq(ContainerSeq, LAMBDA c : cstate[c] # "NONE")

\* cmld_container_get_by_uuid(uuid): "NULL" when the registry holds none
cmld_container_get_by_uuid(cstate, str) ==
    LET hits == {c \in Containers : cstate[c] # "NONE" /\ ContainerUuid(c) = str}
    IN IF hits = {} THEN "NULL" ELSE CHOOSE c \in hits : TRUE

\* cmld_containers_get_c0()
cmld_containers_get_c0(cstate) == IF cstate["c0"] # "NONE" THEN "c0" ELSE "NULL"

\* container_get_rootdir(c)
container_get_rootdir(c) == IF c = "c0" THEN <<47, 65>> ELSE <<47, 66>>  \* "/A", "/B"

(***************************************************************************)
(* USB dispatcher                                                          *)
(***************************************************************************)

\* sscanf(uevent->product, "%hx/%hx/%hx", &id_vendor, &id_product, &version):
\* <<id_vendor, id_product>>, each 0 unless its conversion is reached
scan_product(s) ==
    LET v == scan_hx(s, 1)
    IN IF v[1] < 0 THEN <<0, 0>>
       ELSE IF v[2] <= Len(s) /\ s[v[2]] = 47
            THEN LET q == scan_hx(s, v[2] + 1)
                 IN <<v[1], IF q[1] < 0 THEN 0 ELSE q[1]>>
            ELSE <<v[1], 0>>

uevent_get_usb_vendor(u) ==
    IF u.id_vendor_id # 0 THEN u.id_vendor_id ELSE scan_product(StrOf(u, u.product))[1]

uevent_get_usb_product(u) ==
    IF u.id_model_id # 0 THEN u.id_model_id ELSE scan_product(StrOf(u, u.product))[2]

\* the filter at the head of uevent_handle_usb_device: both strncmp are 0
is_usb_device(u) ==
    /\ strncmp_eq(StrOf(u, u.subsystem), S_usb, 3)
    /\ strncmp_eq(StrOf(u, u.devtype), S_usb_device, 10)

\* a remove loop that compares the major number only
usb_remove_loop_major(u, list) ==
    LET hit == SelectSeq(list, LAMBDA m : u.major = m.usbdev.major)
    IN [i \in 1..Len(hit) |->
            Eff("container_device_deny",
                <<hit[i].container, hit[i].usbdev.major, hit[i].usbdev.minor>>)]

\* the remove loop: a device_deny for every mapping whose stored major and
\* minor are the event's
usb_remove_loop(u, list) ==
    LET hit == SelectSeq(list, LAMBDA m : u.major = m.usbdev.major
                                          /\ u.minor = m.usbdev.minor)
    IN [i \in 1..Len(hit) |->
            Eff("container_device_deny",
                <<hit[i].container, hit[i].usbdev.major, hit[i].usbdev.minor>>)]

\* the test of the add loop on one mapping
usb_add_match(u, serial, m) ==
    /\ m.usbdev.id_vendor = uevent_get_usb_vendor(u)
    /\ m.usbdev.id_product = uevent_get_usb_product(u)
    /\ strcmp_eq(m.usbdev.i_serial, serial)

\* the add loop, its writes to the table
usb_add_loop_list(u, serial, list) ==
    [i \in 1..Len(list) |->
        IF usb_add_match(u, serial, list[i])
        THEN [list[i] EXCEPT !.usbdev.major = u.major, !.usbdev.minor = u.minor]
        ELSE list[i]]

\* the add loop, its calls: container_device_allow(mapping->container,
\* mapping->usbdev->major, mapping->usbdev->minor, mapping->assign)
usb_add_loop_calls(u, serial, list) ==
    LET hit == SelectSeq(list, LAMBDA m : usb_add_match(u, serial, m))
    IN [i \in 1..Len(hit) |->
            Eff("container_device_allow",
                <<hit[i].container, u.major, u.minor, hit[i].assign>>)]

\* the serial as read from /sys/<devpath>/serial with a trailing newline cut
strip_newline(serial) ==
    IF Len(serial) > 0 /\ serial[Len(serial)] = 10
    THEN SubSeq(serial, 1, Len(serial) - 1) ELSE serial

\* uevent_handle_usb_device(uevent): st with the table and the log it leaves,
\* and consumed, the value it returns
uevent_handle_usb_device(u, st, env) ==
    IF ~is_usb_device(u) THEN [st EXCEPT !.consumed = FALSE]
    ELSE IF strncmp_eq(StrOf(u, u.action), S_remove, 6)
    THEN LET detach == Eff("cmld_token_detach", <<StrOf(u, u.devpath), env.token_detach>>)
         IN IF env.token_detach = 0
            THEN [st EXCEPT !.consumed = TRUE, !.log = @ \o <<detach>>]
            ELSE [st EXCEPT !.consumed = FALSE,
                            !.log = @ \o <<detach>> \o usb_remove_loop(u, st.usb)]
    ELSE IF strncmp_eq(StrOf(u, u.action), S_add, 3)
    THEN LET rd == Eff("file_read_new", <<StrOf(u, u.devpath), env.serial>>)
         IN IF ~env.serial.ok \/ Len(env.serial.data) < 1
            THEN [st EXCEPT !.consumed = FALSE, !.log = @ \o <<rd>>]
            ELSE LET serial == strip_newline(env.serial.data)
                     attach == Eff("cmld_token_attach",
                                   <<serial, StrOf(u, u.devpath), env.token_attach>>)
                 IN IF env.token_attach = 0
                    THEN [st EXCEPT !.consumed = TRUE, !.log = @ \o <<rd, attach>>]
                    ELSE [st EXCEPT !.consumed = FALSE,
                                    !.usb = usb_add_loop_list(u, serial, st.usb),
                                    !.log = @ \o <<rd, attach>>
                                              \o usb_add_loop_calls(u, serial, st.usb)]
    ELSE [st EXCEPT !.consumed = FALSE]


(***************************************************************************)
(* Injector and device-node projector                                      *)
(***************************************************************************)

\* how a call of uevent_inject_into_netns can end: fork fails; waitpid fails;
\* the child is killed (a FATAL aborts it); it exits non-zero; it exits 0
InjectOutcomes == {"fork_fail", "waitpid_fail", "abnormal", "exit_nonzero", "exit_0"}

\* the pid fork() gives the parent for its child
CHILD_PID == 1

\* what fork() returns to the parent
inject_fork(outcome) == IF outcome = "fork_fail" THEN -1 ELSE CHILD_PID

\* what waitpid(pid, &status, 0) gives: its return value, WIFEXITED(status)
\* and WEXITSTATUS(status)
inject_waitpid(outcome) ==
    [ret |-> IF outcome = "waitpid_fail" THEN -1 ELSE CHILD_PID,
     exited |-> outcome \in {"exit_0", "exit_nonzero"},
     status |-> IF outcome = "exit_nonzero" THEN 1 ELSE 0]

\* a parent that takes every child that exited for a success
inject_ret_exited(outcome) ==
    LET pid == inject_fork(outcome)
        w == inject_waitpid(outcome)
    IN IF pid = -1 THEN -1
       ELSE IF w.ret # pid THEN -1
       ELSE IF ~w.exited THEN -1
       ELSE 0

\* uevent_inject_into_netns(uevent, size, netns_pid, join_userns): the value
\* it returns
inject_ret(outcome) ==
    LET pid == inject_fork(outcome)
        w == inject_waitpid(outcome)
    IN IF pid = -1 THEN -1
       ELSE IF w.ret # pid THEN -1
       ELSE IF ~w.exited THEN -1
       ELSE IF w.status # 0 THEN -1 ELSE 0

\* uevent_inject_into_netns: what it does; the child sends size bytes of raw
\* into the netns of the container; the last entry holds what fork and
\* waitpid gave and the value returned
uevent_inject_into_netns(bytes, c, outcome) ==
    IF outcome = "fork_fail"
    THEN <<Eff("fork", <<c, "failed">>),
           Eff("uevent_inject_into_netns", <<c, inject_fork(outcome), <<>>, inject_ret(outcome)>>)>>
    ELSE <<Eff("fork", <<c, "child">>), Eff("inject", <<c, bytes, inject_ret(outcome)>>),
           Eff("uevent_inject_into_netns",
               <<c, inject_fork(outcome), <<inject_waitpid(outcome)>>, inject_ret(outcome)>>)>>

\* uevent_create_device_node(uevent, path, container): <<return value, effects>>;
\* node is what the filesystem answers: "exists", "mkdir_fail", "mknod_fail"
\* or "created"
uevent_create_device_node(u, path, c, node, shift_ok) ==
    LET mode == IF strcmp_eq(StrOf(u, u.devtype), S_disk) THEN "S_IFBLK" ELSE "S_IFCHR"
        shift == Eff("container_shift_ids", <<c, path, shift_ok>>)
    IN IF node = "exists" THEN <<IF shift_ok THEN 0 ELSE -1, <<shift>>>>
       ELSE IF node = "mkdir_fail" THEN <<-1, <<Eff("dir_mkdir_p", <<c, "failed">>)>>>>
       ELSE IF node = "mknod_fail"
       THEN <<-1, <<Eff("mknod", <<c, path, mode, u.major, u.minor, "failed">>)>>>>
       ELSE <<IF shift_ok THEN 0 ELSE -1,
              <<Eff("mknod", <<c, path, mode, u.major, u.minor, "created">>), shift>>>>

\* the path of the node inside the container: strncmp("/dev/", devname, 4)
\* decides whether "/dev/" is put before devname
device_node_path(u, c) ==
    container_get_rootdir(c)
        \o (IF strncmp_eq(S_dev, StrOf(u, u.devname), 4) THEN <<>> ELSE S_dev)
        \o StrOf(u, u.devname)

\* a projector that takes a starting container for a live one
projector_state_ok_starting(cs) ==
    cs = "STARTING" \/ cs = "BOOTING" \/ cs = "RUNNING" \/ cs = "SETUP"

\* the states uevent_device_node_and_forward projects into
projector_state_ok(cs) == cs = "BOOTING" \/ cs = "RUNNING" \/ cs = "SETUP"

\* uevent_device_node_and_forward(uevent, container): the effects; e is what
\* the collaborators answer for this container
uevent_device_node_and_forward(u, c, cstate, e) ==
    LET called == Eff("uevent_device_node_and_forward", <<c, BufRead(u, 0, u.msg_len)>>)
        path == device_node_path(u, c)
        inj == uevent_inject_into_netns(BufRead(u, 0, u.msg_len), c, e.inject)
    IN IF c = "NULL" THEN <<>>
       ELSE IF ~projector_state_ok(cstate[c]) THEN <<called>>
       ELSE IF ~e.allowed
       THEN <<called, Eff("container_is_device_allowed", <<c, u.major, u.minor, FALSE>>)>>
       ELSE IF strncmp_eq(StrOf(u, u.action), S_add, 3)
       THEN LET r == uevent_create_device_node(u, path, c, e.node, e.shift_ok)
            IN IF r[1] < 0 THEN <<called>> \o r[2] ELSE <<called>> \o r[2] \o inj
       ELSE IF strncmp_eq(StrOf(u, u.action), S_remove, 6)
       THEN <<called, Eff("unlink", <<c, path>>)>> \o inj
       ELSE <<called>> \o inj

(***************************************************************************)
(* NIC mover                                                               *)
(***************************************************************************)

\* the decimal digits of n, as "%d" prints them
RECURSIVE Decimal(_)
Decimal(n) == IF n < 10 THEN <<48 + n>> ELSE Decimal(n \div 10) \o <<48 + (n % 10)>>

\* the counter uevent_rename_ifi_new picks: !strcmp(infix, "wlan")
ifi_is_wlan(infix) == strcmp_eq(infix, S_wlan)

\* the name uevent_rename_ifi_new generates: asprintf("%s%s%d", "cml", infix, *ifi_idx)
ifi_newname(infix, wlan_idx, eth_idx) ==
    S_cml \o infix \o Decimal(IF ifi_is_wlan(infix) THEN wlan_idx ELSE eth_idx)

\* uevent_rename_ifi_new(oldname, infix): the counter is advanced whether or
\* not network_rename_ifi succeeds; newname is <<>> for NULL
uevent_rename_ifi_new(oldname, infix, st, rename_ok) ==
    LET newname == ifi_newname(infix, st.wlan_idx, st.eth_idx)
    IN [st EXCEPT !.wlan_idx = IF ifi_is_wlan(infix) THEN @ + 1 ELSE @,
                  !.eth_idx = IF ifi_is_wlan(infix) THEN @ ELSE @ + 1,
                  !.newname = IF rename_ok THEN newname ELSE <<>>,
                  !.log = @ \o <<Eff("network_rename_ifi", <<oldname, newname, rename_ok>>)>>]

\* the frame uevent_rename_interface returns: of the two rewritten frames,
\* uev_chname (INTERFACE replaced) is returned and uev_chdevpath is dropped
rename_result(uev_chname, uev_chdevpath) == uev_chname

\* uevent_rename_interface once uevent_rename_ifi_new has answered: s1 carries
\* the new name (<<>> for NULL)
rename_frames(u, s1, env) ==
    LET phys == IF env.phys_tracked
                THEN <<Eff("cmld_netif_phys_remove_by_name", <<StrOf(u, u.interface)>>),
                       Eff("cmld_netif_phys_add_by_name", <<s1.newname>>)>>
                ELSE <<>>
        new_devpath == uevent_replace_devpath_new(StrOf(u, u.devpath),
                                                  StrOf(u, u.interface), s1.newname)
        uev_chname == uevent_replace_member(u, u.interface, s1.newname)
        uev_chdevpath == uevent_replace_member(u, u.devpath, new_devpath[2])
    IN IF s1.newname = <<>> THEN [s1 EXCEPT !.ev = NULLEV]
       ELSE IF ~new_devpath[1] THEN [s1 EXCEPT !.ev = NULLEV, !.log = @ \o phys]
       ELSE [s1 EXCEPT !.log = @ \o phys,
                       !.ev = rename_result(uevent_parse(uev_chname, 0),
                                            uevent_parse(uev_chdevpath, 0))]

\* uevent_rename_interface(uevent): st.ev is the frame it returns (NULLEV for NULL)
uevent_rename_interface(u, st, env) ==
    rename_frames(u, uevent_rename_ifi_new(StrOf(u, u.interface), StrOf(u, u.devtype), st,
                                           env.rename_ok),
                  env)

\* a search that goes on to the last mapping with this MAC
net_first_match_last(list, mac) ==
    LET hits == {i \in DOMAIN list : list[i].mac = mac}
    IN IF hits = {} THEN 0 ELSE CHOOSE i \in hits : \A j \in hits : i >= j

\* the first mapping of the NET table with this MAC: its index, 0 for none
net_first_match(list, mac) ==
    LET hits == {i \in DOMAIN list : list[i].mac = mac}
    IN IF hits = {} THEN 0 ELSE CHOOSE i \in hits : \A j \in hits : i <= j

\* the test that makes uevent_netdev_move skip, as written: a chain of !=
\* joined by ||
move_skips(container, cs) ==
    \/ container = "NULL"
    \/ cs # "BOOTING"
    \/ cs # "RUNNING"
    \/ cs # "STARTING"

\* container_pnet_cfg_new(uevent->interface, false, NULL)
container_pnet_cfg_new(ifname) ==
    [pnet_name |-> [is_mac |-> FALSE, mac |-> "none", name |-> ifname], mac_filter |-> FALSE]

\* uevent_netdev_move after uevent_rename_interface: s1 carries the renamed
\* frame (NULLEV when the rename failed and the original is kept)
move_attach(u, s1, container, pnet_cfg, env) ==
    LET uev == IF IsNull(s1.ev) THEN u ELSE s1.ev
        attach == Eff("container_add_net_iface", <<container, pnet_cfg, env.add_iface_ok>>)
    IN IF ~env.add_iface_ok THEN [s1 EXCEPT !.ret = -1, !.log = @ \o <<attach>>]
       ELSE IF pnet_cfg.mac_filter THEN [s1 EXCEPT !.ret = 0, !.log = @ \o <<attach>>]
       ELSE [s1 EXCEPT !.ret = 0,
                       !.log = @ \o <<attach>>
                                 \o uevent_inject_into_netns(BufRead(uev, 0, uev.msg_len),
                                                             container, env.inject)]

\* uevent_netdev_move(uevent): st.ret is the value it returns
uevent_netdev_move(u, st, env) ==
    LET ifname == StrOf(u, u.interface)
        getmac == Eff("network_get_mac_by_ifname", <<ifname, env.mac>>)
        i == net_first_match(st.net, env.mac.mac)
        container == IF i > 0 THEN st.net[i].container
                     ELSE cmld_containers_get_c0(st.cstate)
        cs == IF container = "NULL" THEN "NONE" ELSE st.cstate[container]
        pnet_cfg == IF i > 0 THEN st.net[i].pnet_cfg ELSE container_pnet_cfg_new(ifname)
        state == Eff("container_get_state", <<container, cs>>)
    IN IF ~env.mac.ok THEN [st EXCEPT !.ret = -1, !.log = @ \o <<getmac>>]
       ELSE IF move_skips(container, cs)
       THEN [st EXCEPT !.ret = -1, !.log = @ \o <<getmac, state>>]
       ELSE move_attach(u,
                        uevent_rename_interface(u, [st EXCEPT !.log = @ \o <<getmac, state>>],
                                                env),
                        container, pnet_cfg, env)

\* a callback that never returns early
timer_retries_never(u, is_wifi) == FALSE

\* the test of uevent_sysfs_netif_timer_cb that makes it return and leave the
\* timer armed: devtype is "wlan" and sysfs does not show wifi yet
timer_retries(u, is_wifi) == strcmp_eq(StrOf(u, u.devtype), S_wlan) /\ ~is_wifi

\* a callback that frees the copy and removes the timer after a successful
\* move only
timer_done_moved(uevent_cb, s1) ==
    IF s1.ret = 0
    THEN [s1 EXCEPT !.timers = @ (-) SetToBag({uevent_cb}),
                    !.log = @ \o <<Eff("uevent_netdev_move", <<s1.ret>>),
                                   Eff("mem_free", <<"uevent_cb">>),
                                   Eff("event_remove_timer", <<>>)>>]
    ELSE [s1 EXCEPT !.log = @ \o <<Eff("uevent_netdev_move", <<s1.ret>>)>>]

\* the end of uevent_sysfs_netif_timer_cb: s1 is what uevent_netdev_move left
timer_done(uevent_cb, s1) ==
    [s1 EXCEPT !.timers = @ (-) SetToBag({uevent_cb}),
               !.log = @ \o <<Eff("uevent_netdev_move", <<s1.ret>>),
                              Eff("mem_free", <<"uevent_cb">>),
                              Eff("event_remove_timer", <<>>)>>]

\* uevent_sysfs_netif_timer_cb on the frame u parsed from the copy
timer_parsed(uevent_cb, u, st, env) ==
    LET wifi == IF strcmp_eq(StrOf(u, u.devtype), S_wlan)
                THEN <<Eff("network_interface_is_wifi", <<StrOf(u, u.interface), env.is_wifi>>)>>
                ELSE <<>>
    IN IF timer_retries(u, env.is_wifi) THEN [st EXCEPT !.log = @ \o wifi]
       ELSE timer_done(uevent_cb, uevent_netdev_move(u, [st EXCEPT !.log = @ \o wifi], env))

\* uevent_sysfs_netif_timer_cb(timer, data): data is the uevent_cb of the timer
uevent_sysfs_netif_timer_cb(uevent_cb, st, env) ==
    timer_parsed(uevent_cb, uevent_parse(uevent_cb, 0), st, env)

(***************************************************************************)
(* Dispatcher                                                              *)
(***************************************************************************)

\* the filter of handle_kernel_event: the action starts with add, remove or
\* change (strncmp with the length of the literal)
kernel_action_ok(action) ==
    \/ strncmp_eq(action, S_add, 3)
    \/ strncmp_eq(action, S_remove, 6)
    \/ strncmp_eq(action, S_change, 6)

\* the test that sends an event to the NIC mover; hosted is
\* cmld_is_hostedmode_active()
is_nic_add(u, hosted) ==
    /\ strncmp_eq(StrOf(u, u.action), S_add, 3)
    /\ strcmp_eq(StrOf(u, u.subsystem), S_net)
    /\ strstr(StrOf(u, u.devpath), S_virtual) < 0
    /\ ~hosted

\* the loop over cmld_container_get_by_index(0 .. count-1)
RECURSIVE fan_out(_, _, _, _)
fan_out(u, cs, cstate, env) ==
    IF cs = <<>> THEN <<>>
    ELSE uevent_device_node_and_forward(u, Head(cs), cstate, env.proj[Head(cs)])
             \o fan_out(u, Tail(cs), cstate, env)

\* a dispatcher that resolves no SYNTH_UUID
synth_target_none(u, cstate) == "NULL"

\* the container handle_kernel_event routes a coldboot event to: "NULL" when
\* SYNTH_UUID is no uuid or names no container of the registry
synth_target(u, cstate) ==
    IF uuid_new_ok(StrOf(u, u.synth_uuid))
    THEN cmld_container_get_by_uuid(cstate, StrOf(u, u.synth_uuid))
    ELSE "NULL"

\* handle_kernel_event after uevent_handle_usb_device returned false: u is the
\* parsed frame, s1 what the USB dispatcher left, container the target of a
\* coldboot event
kernel_route(u, s1, container, env) ==
    IF container # "NULL"
    THEN [s1 EXCEPT !.log = @ \o uevent_device_node_and_forward(
                                     uevent_replace_member(u, u.synth_uuid, S_zero),
                                     container, s1.cstate, env.proj[container])
                              \o <<Eff("mem_free", <<"uev_fwd">>)>>]
    ELSE IF is_nic_add(u, env.hosted)
    THEN [s1 EXCEPT !.timers = @ (+) SetToBag({u}),
                    !.log = @ \o <<Eff("cmld_netif_phys_add_by_name", <<StrOf(u, u.interface)>>),
                                   Eff("event_add_timer", <<BufRead(u, 0, u.msg_len)>>)>>]
    ELSE [s1 EXCEPT !.log = @ \o fan_out(u, Registered(s1.cstate), s1.cstate, env)]

\* handle_kernel_event on the parsed frame u: the action filter, then the USB
\* dispatcher
kernel_usb(u, s1, st, env) ==
    IF ~kernel_action_ok(StrOf(u, u.action)) THEN st
    ELSE IF s1.consumed THEN s1
    ELSE kernel_route(u, s1, synth_target(u, s1.cstate), env)

\* handle_kernel_event after uevent_parse
kernel_parsed(u, st, env) == kernel_usb(u, uevent_handle_usb_device(u, st, env), st, env)

\* handle_kernel_event(uevent, raw_p)
handle_kernel_event(uevent, raw_p, st, env) ==
    kernel_parsed(uevent_parse(uevent, raw_p), st, env)

\* handle_udev_event(uevent, raw_p): it parses and returns
handle_udev_event(uevent, raw_p, st) == st

\* the value (size_t)-1 .. of a negative int stored into msg_len: beyond every
\* buffer length (the model keeps it below 2^31)
SIZE_MAX == 2147483647

\* the int that nl_msg_receive_kernel returns, stored into the size_t msg_len
size_t_of(ret) == IF ret < 0 THEN SIZE_MAX + (1 + ret) ELSE ret

\* the frame is a udev frame: strncmp(uev->msg.nlh.prefix, "libudev", uev->msg_len) == 0
is_udev_frame(u) == strncmp_eq(CStrAt(u, 0), S_libudev, u.msg_len)

\* the magic check of a udev frame fails
udev_magic_bad(u) == BufRead(u, NLH_MAGIC_OFF, 4) # UDEV_MONITOR_MAGIC_NET

\* a dispatcher that checks no magic and routes the entries of a udev frame as
\* it routes those of a kernel frame
uevent_handle_nomagic(recv, st, env) ==
    LET uev == uevent_new0(recv.bytes, size_t_of(recv.ret))
        s1 == IF is_udev_frame(uev)
              THEN handle_kernel_event(uev, U32At(uev, NLH_PROPERTIES_OFF_OFF)[1], st, env)
              ELSE IF strchr_found(CStrAt(uev, 0), 64)
              THEN handle_kernel_event(uev, strlen_at(uev, 0) + 1, st, env)
              ELSE st
    IN [s1 EXCEPT !.log = @ \o <<Eff("mem_free", <<"uev">>)>>]

\* uevent_handle(fd, events, io, data); recv is what nl_msg_receive_kernel
\* gives: its return value and the bytes it put into the zeroed buffer
uevent_handle(recv, st, env) ==
    LET uev == uevent_new0(recv.bytes, size_t_of(recv.ret))
        free == <<Eff("mem_free", <<"uev">>)>>
        s1 == IF uev.msg_len <= 0
              THEN [st EXCEPT !.log = @ \o <<Eff("WARN", <<"could not read uevent">>)>>]
              ELSE IF is_udev_frame(uev)
              THEN IF udev_magic_bad(uev)
                   THEN [st EXCEPT !.log = @ \o <<Eff("WARN", <<"unrecognized message signature">>)>>]
                   ELSE IF U32Gt(U32Add(U32At(uev, NLH_PROPERTIES_OFF_OFF), 32), uev.msg_len)
                   THEN [st EXCEPT !.log = @ \o <<Eff("WARN", <<"message smaller than expected">>)>>]
                   ELSE handle_udev_event(uev, U32At(uev, NLH_PROPERTIES_OFF_OFF)[1],
                            [st EXCEPT !.log = @ \o <<Eff("TRACE", <<"handle_udev_event">>)>>])
              ELSE IF strchr_found(CStrAt(uev, 0), 64)
              THEN handle_kernel_event(uev, strlen_at(uev, 0) + 1,
                       [st EXCEPT !.log = @ \o <<Eff("TRACE", <<"kernel uevent">>)>>], env)
              ELSE [st EXCEPT !.log = @ \o <<Eff("TRACE", <<"no uevent">>)>>]
    IN [s1 EXCEPT !.log = @ \o free]


(***************************************************************************)
(* Inputs: the messages received and what the collaborators answer         *)
(***************************************************************************)

\* bounds of the model
MaxUsb == 2

MaxNet == 2

MaxTimers == 2

MaxIdx == 3

V_usb1 == <<47, 100, 47, 117, 115, 98, 49>>  \* "/d/usb1"
V_usb2 == <<47, 100, 47, 117, 115, 98, 50>>  \* "/d/usb2"
V_tty == <<47, 100, 47, 116, 116, 121>>  \* "/d/tty"
V_eth5path == <<47, 100, 47, 110, 101, 116, 47, 101, 116, 104, 53>>  \* "/d/net/eth5"
V_wlan0path == <<47, 100, 47, 110, 101, 116, 47, 119, 108, 97, 110, 48>>  \* "/d/net/wlan0"
V_lopath == <<47, 100, 47, 118, 105, 114, 116, 117, 97, 108, 47, 110, 101, 116, 47, 108, 111>>  \* "/d/virtual/net/lo"
V_product == <<49, 100, 54, 98, 47, 50, 47, 52, 49, 48>>  \* "1d6b/2/410"
V_189 == <<49, 56, 57>>  \* "189"
V_3 == <<51>>  \* "3"
V_4 == <<52>>  \* "4"
V_64 == <<54, 52>>  \* "64"
V_1d6b == <<49, 100, 54, 98>>  \* "1d6b"
V_0003 == <<48, 48, 48, 51>>  \* "0003"
V_ttyS0 == <<116, 116, 121, 83, 48>>  \* "ttyS0"
V_tty_sub == <<116, 116, 121>>  \* "tty"
V_eth5 == <<101, 116, 104, 53>>  \* "eth5"
V_wlan0 == <<119, 108, 97, 110, 48>>  \* "wlan0"
V_lo == <<108, 111>>  \* "lo"
V_bind == <<98, 105, 110, 100>>  \* "bind"
V_A1 == <<65, 49>>  \* "A1"
V_B == <<66>>  \* "B"
V_hello == <<104, 101, 108, 108, 111>>  \* "hello"

\* a KEY=value entry of the property stream
Prop(key, value) == key \o value \o <<NUL>>

\* a kernel frame: ACTION@DEVPATH, NUL, then the entries
KernelMsg(action, devpath, props) == action \o <<64>> \o devpath \o <<NUL>> \o props

\* a udev frame: the 40-byte header (prefix, magic, header_size,
\* properties_off, properties_len, four hashes), then the entries
UdevMsg(magic, props) ==
    S_libudev \o <<NUL>> \o magic \o <<NLH_SIZE, 0, 0, 0>> \o <<NLH_SIZE, 0, 0, 0>>
        \o <<Len(props), 0, 0, 0>> \o [i \in 1..16 |-> 7] \o props

\* S1: add of a usb_device, the ids in PRODUCT
Msg_usb_add ==
    KernelMsg(S_add, V_usb1,
        Prop(K_ACTION, S_add) \o Prop(K_DEVPATH, V_usb1) \o Prop(K_SUBSYSTEM, S_usb)
        \o Prop(K_DEVTYPE, S_usb_device) \o Prop(K_PRODUCT, V_product)
        \o Prop(K_MAJOR, V_189) \o Prop(K_MINOR, V_3))

\* add of a second usb_device, the ids in ID_VENDOR_ID and ID_MODEL_ID
Msg_usb_add_ids ==
    KernelMsg(S_add, V_usb2,
        Prop(K_ACTION, S_add) \o Prop(K_DEVPATH, V_usb2) \o Prop(K_SUBSYSTEM, S_usb)
        \o Prop(K_DEVTYPE, S_usb_device) \o Prop(K_ID_VENDOR_ID, V_1d6b)
        \o Prop(K_ID_MODEL_ID, V_0003) \o Prop(K_MAJOR, V_189) \o Prop(K_MINOR, V_4))

\* S2: remove of the usb_device of S1
Msg_usb_remove ==
    KernelMsg(S_remove, V_usb1,
        Prop(K_ACTION, S_remove) \o Prop(K_DEVPATH, V_usb1) \o Prop(K_SUBSYSTEM, S_usb)
        \o Prop(K_DEVTYPE, S_usb_device) \o Prop(K_MAJOR, V_189) \o Prop(K_MINOR, V_3))

\* remove of a usb_device that carries no MAJOR and no MINOR
Msg_usb_remove_nodev ==
    KernelMsg(S_remove, V_usb2,
        Prop(K_ACTION, S_remove) \o Prop(K_DEVPATH, V_usb2) \o Prop(K_SUBSYSTEM, S_usb)
        \o Prop(K_DEVTYPE, S_usb_device))

\* S3: a coldboot event for container c1
Msg_synth_c1 ==
    KernelMsg(S_add, V_tty,
        Prop(K_ACTION, S_add) \o Prop(K_DEVPATH, V_tty) \o Prop(K_SUBSYSTEM, V_tty_sub)
        \o Prop(K_SYNTH_UUID, ContainerUuid("c1")) \o Prop(K_DEVNAME, V_ttyS0)
        \o Prop(K_MAJOR, V_4) \o Prop(K_MINOR, V_64))

\* a coldboot event of a usb_device for container c0
Msg_synth_usb_c0 ==
    KernelMsg(S_remove, V_usb1,
        Prop(K_ACTION, S_remove) \o Prop(K_DEVPATH, V_usb1) \o Prop(K_SUBSYSTEM, S_usb)
        \o Prop(K_DEVTYPE, S_usb_device) \o Prop(K_DEVNAME, V_usb1)
        \o Prop(K_MAJOR, V_189) \o Prop(K_MINOR, V_3)
        \o Prop(K_SYNTH_UUID, ContainerUuid("c0")))

\* a coldboot event of a physical interface for container c1
Msg_synth_net_c1 ==
    KernelMsg(S_add, V_eth5path,
        Prop(K_ACTION, S_add) \o Prop(K_DEVPATH, V_eth5path) \o Prop(K_SUBSYSTEM, S_net)
        \o Prop(K_SYNTH_UUID, ContainerUuid("c1")) \o Prop(K_INTERFACE, V_eth5))

\* an event for every container
Msg_tty_change ==
    KernelMsg(S_change, V_tty,
        Prop(K_ACTION, S_change) \o Prop(K_DEVPATH, V_tty) \o Prop(K_SUBSYSTEM, V_tty_sub)
        \o Prop(K_DEVNAME, V_ttyS0) \o Prop(K_MAJOR, V_4) \o Prop(K_MINOR, V_64))

\* an event whose action is none of add, remove, change
Msg_bind ==
    KernelMsg(V_bind, V_usb1,
        Prop(K_ACTION, V_bind) \o Prop(K_DEVPATH, V_usb1) \o Prop(K_SUBSYSTEM, S_usb))

\* S4: add of a physical ethernet interface
Msg_net_eth ==
    KernelMsg(S_add, V_eth5path,
        Prop(K_ACTION, S_add) \o Prop(K_DEVPATH, V_eth5path) \o Prop(K_SUBSYSTEM, S_net)
        \o Prop(K_INTERFACE, V_eth5))

\* S5: add of a wifi interface
Msg_net_wlan ==
    KernelMsg(S_add, V_wlan0path,
        Prop(K_ACTION, S_add) \o Prop(K_DEVPATH, V_wlan0path) \o Prop(K_SUBSYSTEM, S_net)
        \o Prop(K_DEVTYPE, S_wlan) \o Prop(K_INTERFACE, V_wlan0))

\* add of a physical interface that names its DEVTYPE
Msg_net_eth_typed ==
    KernelMsg(S_add, V_eth5path,
        Prop(K_ACTION, S_add) \o Prop(K_DEVPATH, V_eth5path) \o Prop(K_SUBSYSTEM, S_net)
        \o Prop(K_DEVTYPE, S_eth) \o Prop(K_INTERFACE, V_eth5))

\* add of a virtual interface
Msg_net_virtual ==
    KernelMsg(S_add, V_lopath,
        Prop(K_ACTION, S_add) \o Prop(K_DEVPATH, V_lopath) \o Prop(K_SUBSYSTEM, S_net)
        \o Prop(K_INTERFACE, V_lo))

\* S6: a udev frame with magic 0xDEADBEEF
Msg_udev_badmagic ==
    UdevMsg(<<222, 173, 190, 239>>,
        Prop(K_ACTION, S_add) \o Prop(K_DEVPATH, V_tty) \o Prop(K_DEVNAME, V_ttyS0)
        \o Prop(K_MAJOR, V_4) \o Prop(K_MINOR, V_64))

\* a udev frame with the proper magic
Msg_udev ==
    UdevMsg(UDEV_MONITOR_MAGIC_NET,
        Prop(K_ACTION, S_add) \o Prop(K_DEVPATH, V_tty) \o Prop(K_DEVNAME, V_ttyS0)
        \o Prop(K_MAJOR, V_4) \o Prop(K_MINOR, V_64))

\* three bytes, the start of the udev prefix
Msg_lib == <<108, 105, 98>>

\* a message that is neither
Msg_other == V_hello \o <<NUL>>

\* what nl_msg_receive_kernel gives for a message
Recv(bytes) == [ret |-> Len(bytes), bytes |-> bytes]

\* the devices handed to register and unregister
dev_A == uevent_usbdev_new("GENERIC", 7531, 2, V_A1, TRUE)

dev_A_bound ==
    uevent_usbdev_set_major_minor(uevent_usbdev_new("GENERIC", 7531, 2, V_A1, FALSE), 189, 4)

dev_B == uevent_usbdev_new("TOKEN", 7531, 3, V_B, FALSE)

UsbDevs == {dev_A, dev_A_bound, dev_B}

\* the devices the table specification registers
TableDevs == {dev_A, dev_B}

\* the configurations handed to register_netdev: two name a MAC, one an
\* interface name
PnetCfg(is_mac, mac, name, mac_filter) ==
    [pnet_name |-> [is_mac |-> is_mac, mac |-> mac, name |-> name], mac_filter |-> mac_filter]

PnetCfgs ==
    {PnetCfg(TRUE, "m1", <<>>, FALSE), PnetCfg(TRUE, "m2", <<>>, TRUE),
     PnetCfg(FALSE, "none", V_eth5, FALSE)}

\* the configurations the table specification registers
TableCfgs == {PnetCfg(TRUE, "m1", <<>>, FALSE), PnetCfg(FALSE, "none", V_eth5, FALSE)}

\* what the collaborators of the projector answer for one container
ProjEnv(allowed, node, shift_ok, inject) ==
    [allowed |-> allowed, node |-> node, shift_ok |-> shift_ok, inject |-> inject]

ProjQuiet == ProjEnv(TRUE, "created", TRUE, "exit_0")

\* what the collaborators of uevent_handle answer
HandleEnv(serial, token_attach, token_detach, hosted, proj) ==
    [serial |-> serial, token_attach |-> token_attach, token_detach |-> token_detach,
     hosted |-> hosted, proj |-> proj]

\* /sys/<devpath>/serial: missing, or its content
NoSerial == [ok |-> FALSE, data |-> <<>>]

Serial(data) == [ok |-> TRUE, data |-> data]

\* what the collaborators of the timer callback answer
TimerEnv(is_wifi, mac, rename_ok, phys_tracked, add_iface_ok, inject) ==
    [is_wifi |-> is_wifi, mac |-> mac, rename_ok |-> rename_ok,
     phys_tracked |-> phys_tracked, add_iface_ok |-> add_iface_ok, inject |-> inject]

\* network_get_mac_by_ifname: failure, or the MAC
NoMac == [ok |-> FALSE, mac |-> "none"]

Mac(m) == [ok |-> TRUE, mac |-> m]


(***************************************************************************)
(* Actions                                                                 *)
(***************************************************************************)

\* the state a handler works on, and the places for what it hands back
Bundle ==
    [usb |-> uevent_container_dev_mapping_list,
     net |-> uevent_container_netdev_mapping_list,
     wlan_idx |-> cmld_wlan_idx, eth_idx |-> cmld_eth_idx, timers |-> timers,
     cstate |-> container_state, log |-> <<>>, consumed |-> FALSE, ret |-> 0,
     newname |-> <<>>, ev |-> NULLEV]

Last(op, ret, msg, log) == [op |-> op, ret |-> ret, msg |-> msg, log |-> log]

\* the state a handler leaves
Commit(r, op, msg) ==
    /\ r.wlan_idx <= MaxIdx /\ r.eth_idx <= MaxIdx
    /\ BagCardinality(r.timers) <= MaxTimers
    /\ uevent_container_dev_mapping_list' = r.usb
    /\ uevent_container_netdev_mapping_list' = r.net
    /\ cmld_wlan_idx' = r.wlan_idx
    /\ cmld_eth_idx' = r.eth_idx
    /\ timers' = r.timers
    /\ last' = Last(op, r.ret, msg, r.log)
    /\ UNCHANGED <<uevent_netlink_sock, uevent_io_event, container_state>>

Init ==
    /\ uevent_netlink_sock = "NULL"
    /\ uevent_io_event = "NULL"
    /\ uevent_container_dev_mapping_list = <<>>
    /\ uevent_container_netdev_mapping_list = <<>>
    /\ cmld_wlan_idx = 0
    /\ cmld_eth_idx = 0
    /\ timers = EmptyBag
    /\ container_state = [c \in Containers |-> "STOPPED"]
    /\ last = Last("none", 0, <<>>, <<>>)

\* the renames of uevent_init: one uevent_rename_ifi_new per interface of
\* cmld_get_netif_phys_list(); phys[i] is network_interface_is_wifi of the i-th
RECURSIVE init_renames(_, _)
init_renames(phys, st) ==
    IF phys = <<>> THEN st
    ELSE init_renames(Tail(phys),
                      uevent_rename_ifi_new(<<>>, IF Head(phys) THEN S_wlan ELSE S_eth,
                                            st, TRUE))

\* uevent_init after the renames: the socket, its fd made non-blocking, the
\* watcher
init_socket(sock_ok, nonblock_ok) ==
    IF ~sock_ok
    THEN <<Eff("nl_sock_uevent_new", <<FALSE>>), Eff("ERROR", <<"Could not open netlink socket">>)>>
    ELSE IF ~nonblock_ok
    THEN <<Eff("nl_sock_uevent_new", <<TRUE>>), Eff("fd_make_non_blocking", <<FALSE>>),
           Eff("nl_sock_free", <<"uevent_netlink_sock">>)>>
    ELSE <<Eff("nl_sock_uevent_new", <<TRUE>>), Eff("fd_make_non_blocking", <<TRUE>>),
           Eff("event_add_io", <<"uevent_io_event">>)>>

\* uevent_init(): phys is the list of physical interfaces, sock_ok whether
\* nl_sock_uevent_new gives a socket, nonblock_ok whether fd_make_non_blocking
\* succeeds
uevent_init(phys, sock_ok, nonblock_ok) ==
    IF uevent_netlink_sock # "NULL" \/ uevent_io_event # "NULL"
    THEN /\ last' = Last("uevent_init", -1, <<>>,
                         <<Eff("ERROR", <<IF uevent_netlink_sock # "NULL"
                                          THEN "Uevent netlink_socket already exists."
                                          ELSE "Uevent io_event already exists.">>)>>)
         /\ UNCHANGED <<uevent_netlink_sock, uevent_io_event,
                        uevent_container_dev_mapping_list,
                        uevent_container_netdev_mapping_list, cmld_wlan_idx,
                        cmld_eth_idx, timers, container_state>>
    ELSE LET r == init_renames(phys, Bundle)
         IN /\ r.wlan_idx <= MaxIdx /\ r.eth_idx <= MaxIdx
            /\ cmld_wlan_idx' = r.wlan_idx
            /\ cmld_eth_idx' = r.eth_idx
            /\ uevent_netlink_sock' = IF ~sock_ok THEN "NULL"
                                      ELSE IF ~nonblock_ok THEN "freed" ELSE "open"
            /\ uevent_io_event' = IF sock_ok /\ nonblock_ok THEN "installed" ELSE "NULL"
            /\ last' = Last("uevent_init", IF sock_ok /\ nonblock_ok THEN 0 ELSE -1,
                            <<>>, r.log \o init_socket(sock_ok, nonblock_ok))
            /\ UNCHANGED <<uevent_container_dev_mapping_list,
                           uevent_container_netdev_mapping_list, timers, container_state>>

\* uevent_register_usbdevice(container, usbdev)
uevent_register_usbdevice(container, usbdev) ==
    /\ Len(uevent_container_dev_mapping_list) < MaxUsb
    /\ uevent_container_dev_mapping_list' =
           register_usbdevice(uevent_container_dev_mapping_list, container, usbdev)
    /\ last' = Last("uevent_register_usbdevice", 0, <<>>, <<>>)
    /\ UNCHANGED <<uevent_netlink_sock, uevent_io_event,
                   uevent_container_netdev_mapping_list, cmld_wlan_idx, cmld_eth_idx,
                   timers, container_state>>

\* uevent_unregister_usbdevice(container, usbdev)
uevent_unregister_usbdevice(container, usbdev) ==
    LET r == unregister_usbdevice(uevent_container_dev_mapping_list, container, usbdev)
        i == usb_mapping_to_remove(uevent_container_dev_mapping_list, container, usbdev)
        freed == IF i = 0 THEN <<>>
                 ELSE <<Eff("uevent_container_dev_mapping_free",
                            <<uevent_container_dev_mapping_list[i]>>)>>
    IN /\ uevent_container_dev_mapping_list' = r[2]
       /\ last' = Last("uevent_unregister_usbdevice", r[1], <<>>, freed)
       /\ UNCHANGED <<uevent_netlink_sock, uevent_io_event,
                      uevent_container_netdev_mapping_list, cmld_wlan_idx,
                      cmld_eth_idx, timers, container_state>>

\* uevent_register_netdev(container, pnet_cfg)
uevent_register_netdev(container, pnet_cfg) ==
    LET r == register_netdev(uevent_container_netdev_mapping_list, container, pnet_cfg)
    IN /\ Len(r[2]) <= MaxNet
       /\ uevent_container_netdev_mapping_list' = r[2]
       /\ last' = Last("uevent_register_netdev", r[1], <<>>, <<>>)
       /\ UNCHANGED <<uevent_netlink_sock, uevent_io_event,
                      uevent_container_dev_mapping_list, cmld_wlan_idx, cmld_eth_idx,
                      timers, container_state>>

\* uevent_unregister_netdev(container, mac)
uevent_unregister_netdev(container, mac) ==
    LET r == unregister_netdev(uevent_container_netdev_mapping_list, container, mac)
        i == net_mapping_to_remove(uevent_container_netdev_mapping_list, container, mac)
        freed == IF i = 0 THEN <<>>
                 ELSE <<Eff("uevent_container_netdev_mapping_free",
                            <<uevent_container_netdev_mapping_list[i]>>)>>
    IN /\ uevent_container_netdev_mapping_list' = r[2]
       /\ last' = Last("uevent_unregister_netdev", r[1], <<>>, freed)
       /\ UNCHANGED <<uevent_netlink_sock, uevent_io_event,
                      uevent_container_dev_mapping_list, cmld_wlan_idx, cmld_eth_idx,
                      timers, container_state>>

\* uevent_deinit(): the watcher and the socket are freed when their pointers
\* are not NULL; the pointers are left as they are.  Freeing what was freed
\* before is undefined: the call returns or the process is aborted
uevent_deinit(outcome) ==
    LET again == uevent_io_event = "freed" \/ uevent_netlink_sock = "freed"
        io == IF uevent_io_event = "NULL" THEN <<>>
              ELSE <<Eff("event_remove_io", <<uevent_io_event>>),
                     Eff("event_io_free", <<uevent_io_event>>)>>
        sock == IF uevent_netlink_sock = "NULL" THEN <<>>
                ELSE <<Eff("nl_sock_free", <<uevent_netlink_sock>>)>>
        abort == IF again /\ outcome = "crash" THEN <<Eff("SIGABRT", <<>>)>> ELSE <<>>
    IN /\ outcome = "crash" => again
       /\ uevent_io_event' = IF uevent_io_event = "NULL" THEN "NULL" ELSE "freed"
       /\ uevent_netlink_sock' = IF uevent_netlink_sock = "NULL" THEN "NULL" ELSE "freed"
       /\ last' = Last("uevent_deinit", 0, <<>>, io \o sock \o abort)
       /\ UNCHANGED <<uevent_container_dev_mapping_list,
                      uevent_container_netdev_mapping_list, cmld_wlan_idx, cmld_eth_idx,
                      timers, container_state>>

\* the event loop calls uevent_handle: the watcher is installed and the
\* socket is readable
Receive(recv, env) ==
    /\ uevent_io_event = "installed"
    /\ Commit(uevent_handle(recv, Bundle, env), "uevent_handle", recv.bytes)

\* the event loop calls uevent_sysfs_netif_timer_cb for an armed timer
TimerFire(uevent_cb, env) ==
    /\ BagIn(uevent_cb, timers)
    /\ Commit(uevent_sysfs_netif_timer_cb(uevent_cb, Bundle, env),
              "uevent_sysfs_netif_timer_cb", BufRead(uevent_cb, 0, uevent_cb.msg_len))

\* the container manager changes the registry: a container is created,
\* changes its state or is destroyed
ContainerChange(c, cs) ==
    /\ container_state[c] # cs
    /\ container_state' = [container_state EXCEPT ![c] = cs]
    /\ last' = Last("container_change", 0, <<>>, <<>>)
    /\ UNCHANGED <<uevent_netlink_sock, uevent_io_event,
                   uevent_container_dev_mapping_list,
                   uevent_container_netdev_mapping_list, cmld_wlan_idx, cmld_eth_idx,
                   timers>>

(***************************************************************************)
(* Spec: the two routing tables under register, unregister and the add     *)
(* events that bind a mapping                                              *)
(***************************************************************************)

\* uevent_init with no physical interface to rename, all going well
Start == uevent_init(<<>>, TRUE, TRUE)

QuietProj == [c \in Containers |-> ProjQuiet]

RegisterUsb == \E c \in Containers, d \in TableDevs : uevent_register_usbdevice(c, d)

UnregisterUsb == \E c \in Containers, d \in TableDevs : uevent_unregister_usbdevice(c, d)

RegisterNet == \E c \in Containers, cfg \in TableCfgs : uevent_register_netdev(c, cfg)

UnregisterNet == \E c \in Containers : uevent_unregister_netdev(c, "m1")

\* an add event whose serial is that of dev_A, no token
BindUsb == Receive(Recv(Msg_usb_add), HandleEnv(Serial(V_A1 \o <<10>>), -1, -1, FALSE, QuietProj))

Next ==
    \/ Start
    \/ RegisterUsb
    \/ UnregisterUsb
    \/ RegisterNet
    \/ UnregisterNet
    \/ BindUsb

Spec == Init /\ [][Next]_vars

(***************************************************************************)
(* The routing tables: round trip, uniqueness, re-registration             *)
(***************************************************************************)

\* the mappings of a table with the identity of (container, usbdev)
UsbSame(list, c, d) == {i \in DOMAIN list : usb_identity_eq(list[i], c, d)}

\* C8: in every reachable state, for every container c and device d,
\* register_usbdevice(c, d) then unregister_usbdevice(c, d) returns 0 and
\* leaves the USB table as it was (records, order, major/minor), whether or
\* not the identity was registered before; and register_netdev(c, cfg) with a
\* MAC then unregister_netdev(c, mac) returns 0 and leaves the NET table as
\* it was.
C8_RoundTrip ==
    /\ \A c \in Containers, d \in UsbDevs :
           unregister_usbdevice(register_usbdevice(uevent_container_dev_mapping_list, c, d),
                                c, d)
               = <<0, uevent_container_dev_mapping_list>>
    /\ \A c \in Containers, cfg \in PnetCfgs :
           LET r == register_netdev(uevent_container_netdev_mapping_list, c, cfg)
           IN r[1] = 0 =>
                  unregister_netdev(r[2], c, cfg.pnet_name.mac)
                      = <<0, uevent_container_netdev_mapping_list>>

\* the unregister of dev_A for c0 on a table that held the identity twice, the
\* earlier record bound to 189:3 by an add event: the later record is the one
\* freed, the bound one stays; a NET mapping is registered too
C8_Witness ==
    /\ last.op = "uevent_unregister_usbdevice"
    /\ last.ret = 0
    /\ \E k \in DOMAIN last.log :
           /\ last.log[k].call = "uevent_container_dev_mapping_free"
           /\ usb_identity_eq(last.log[k].args[1], "c0", dev_A)
           /\ last.log[k].args[1].usbdev.major = -1
    /\ \E i \in UsbSame(uevent_container_dev_mapping_list, "c0", dev_A) :
           uevent_container_dev_mapping_list[i].usbdev.major = 189
    /\ uevent_container_netdev_mapping_list # <<>>

\* C9: the USB table holds at most one mapping per (container, vendor,
\* product, serial) and the NET table at most one per (container, mac).
C9_OnePerIdentity ==
    /\ \A i, j \in DOMAIN uevent_container_dev_mapping_list :
           usb_identity_eq(uevent_container_dev_mapping_list[i],
                           uevent_container_dev_mapping_list[j].container,
                           uevent_container_dev_mapping_list[j].usbdev) => i = j
    /\ \A i, j \in DOMAIN uevent_container_netdev_mapping_list :
           (/\ uevent_container_netdev_mapping_list[i].container
                   = uevent_container_netdev_mapping_list[j].container
            /\ uevent_container_netdev_mapping_list[i].mac
                   = uevent_container_netdev_mapping_list[j].mac) => i = j

\* C10: register_usbdevice(c, d) on a table that holds the identity of (c, d)
\* adds no record, and the record of that identity takes the major/minor of d.
C10_ReRegisterReplaces ==
    \A c \in Containers, d \in UsbDevs :
        UsbSame(uevent_container_dev_mapping_list, c, d) # {} =>
            LET T == register_usbdevice(uevent_container_dev_mapping_list, c, d)
            IN /\ Len(T) = Len(uevent_container_dev_mapping_list)
               /\ \A i \in UsbSame(T, c, d) :
                      /\ T[i].usbdev.major = d.major
                      /\ T[i].usbdev.minor = d.minor

(***************************************************************************)
(* SpecUsb: usb_device add and remove events over a registered table       *)
(***************************************************************************)

\* the registrations of this specification
UsbRegs == {<<"c0", dev_A>>, <<"c1", dev_A>>, <<"c1", dev_B>>}

UsbRegister == \E r \in UsbRegs : uevent_register_usbdevice(r[1], r[2])

\* /sys/<devpath>/serial as the add events find it
UsbSerials == {NoSerial, Serial(V_A1 \o <<10>>), Serial(V_B)}

UsbAdd ==
    \E m \in {Msg_usb_add, Msg_usb_add_ids}, serial \in UsbSerials, attach \in {-1, 0} :
        Receive(Recv(m), HandleEnv(serial, attach, -1, FALSE, QuietProj))

UsbRemove ==
    \E m \in {Msg_usb_remove, Msg_usb_remove_nodev}, detach \in {-1, 0} :
        Receive(Recv(m), HandleEnv(NoSerial, -1, detach, FALSE, QuietProj))

NextUsb ==
    \/ Start
    \/ UsbRegister
    \/ UsbAdd
    \/ UsbRemove

SpecUsb == Init /\ [][NextUsb]_vars

\* what the usb_device frames of this specification say: the ids (0x1d6b is
\* 7531) and the device numbers
UsbAddEvents ==
    {[msg |-> Msg_usb_add, vendor |-> 7531, product |-> 2, major |-> 189, minor |-> 3],
     [msg |-> Msg_usb_add_ids, vendor |-> 7531, product |-> 3, major |-> 189, minor |-> 4]}

UsbRemoveEvents ==
    {[msg |-> Msg_usb_remove, major |-> 189, minor |-> 3],
     [msg |-> Msg_usb_remove_nodev, major |-> -1, minor |-> -1]}

\* the calls of `call' in a log, their arguments in order
ArgsOf(log, call) ==
    LET hit == SelectSeq(log, LAMBDA e : e.call = call)
    IN [i \in 1..Len(hit) |-> hit[i].args]

\* the serial an add event read, as a text without the trailing newline;
\* <<>> when none was read
SerialRead(log) ==
    LET rd == ArgsOf(log, "file_read_new")
    IN IF rd = <<>> \/ ~rd[1][2].ok THEN <<>>
       ELSE LET d == rd[1][2].data
            IN IF d # <<>> /\ d[Len(d)] = 10 THEN SubSeq(d, 1, Len(d) - 1) ELSE d

\* an add event was handled, its serial read and no token claimed it
UsbAddHandled(l, ev) ==
    /\ l.op = "uevent_handle"
    /\ l.msg = ev.msg
    /\ SerialRead(l.log) # <<>>
    /\ \E k \in DOMAIN l.log :
           l.log[k].call = "cmld_token_attach" /\ l.log[k].args[3] # 0

UsbIdMatch(m, ev, serial) ==
    /\ m.usbdev.id_vendor = ev.vendor
    /\ m.usbdev.id_product = ev.product
    /\ m.usbdev.i_serial = serial

\* C2: an add event with a readable serial that no token claims sets the
\* major/minor of every mapping of its (vendor, product, serial) to the
\* event's and calls device_allow(container, major, minor, assign) once for
\* each of them, assign being the flag of the registered device; the other
\* mappings are unchanged and get no device_allow.
C2_AddAllowsWithAssign ==
    [][\A ev \in UsbAddEvents :
          UsbAddHandled(last', ev) =>
              LET T == uevent_container_dev_mapping_list
                  serial == SerialRead(last'.log)
                  hit == SelectSeq(T, LAMBDA m : UsbIdMatch(m, ev, serial))
              IN /\ Len(uevent_container_dev_mapping_list') = Len(T)
                 /\ \A i \in DOMAIN T :
                        uevent_container_dev_mapping_list'[i] =
                            IF UsbIdMatch(T[i], ev, serial)
                            THEN [T[i] EXCEPT !.usbdev.major = ev.major,
                                              !.usbdev.minor = ev.minor]
                            ELSE T[i]
                 /\ ArgsOf(last'.log, "container_device_allow") =
                        [i \in 1..Len(hit) |->
                            <<hit[i].container, ev.major, ev.minor, hit[i].usbdev.assign>>]
      ]_vars

\* a remove event was handled and token_detach did not claim it
UsbRemoveHandled(l, ev) ==
    /\ l.op = "uevent_handle"
    /\ l.msg = ev.msg
    /\ \E k \in DOMAIN l.log :
           l.log[k].call = "cmld_token_detach" /\ l.log[k].args[2] # 0

\* C3: a remove event that token_detach does not claim calls
\* device_deny(container, major, minor) for the mappings whose stored
\* major/minor are the event's, in table order, and for no other; the table
\* is unchanged; the event goes on to routing: the projector is called once
\* for every container of the registry.
C3_RemoveDenies ==
    [][\A ev \in UsbRemoveEvents :
          UsbRemoveHandled(last', ev) =>
              LET T == uevent_container_dev_mapping_list
                  hit == SelectSeq(T, LAMBDA m : m.usbdev.major = ev.major
                                                /\ m.usbdev.minor = ev.minor)
              IN /\ uevent_container_dev_mapping_list' = T
                 /\ ArgsOf(last'.log, "container_device_deny") =
                        [i \in 1..Len(hit) |->
                            <<hit[i].container, ev.major, ev.minor>>]
                 /\ ArgsOf(last'.log, "uevent_device_node_and_forward") =
                        [i \in 1..Len(ContainerSeq) |-> <<ContainerSeq[i], ev.msg>>]
      ]_vars

\* the remove of 189:3 with one mapping bound to 189:3 and another bound to
\* 189:4: the first is denied, the second is not
C3_Witness ==
    /\ last.op = "uevent_handle"
    /\ last.msg = Msg_usb_remove
    /\ ArgsOf(last.log, "container_device_deny") = <<<<"c0", 189, 3>>>>
    /\ Len(uevent_container_dev_mapping_list) = 2
    /\ uevent_container_dev_mapping_list[1].usbdev.minor = 3
    /\ uevent_container_dev_mapping_list[2].usbdev.minor = 4
    /\ uevent_container_dev_mapping_list[2].usbdev.major = 189

\* the device numbers an add event of this specification binds a mapping to
\* (every registered device starts unbound, at -1:-1)
UsbBoundNumbers == {<<ev.major, ev.minor>> : ev \in UsbAddEvents}

\* C28: device_deny(container, major, minor) is called for a mapping only if
\* an earlier add event matched that mapping and caused device_allow for the
\* same container and numbers: the mapping is bound to numbers an add event
\* carried; a remove event without MAJOR and MINOR triggers no device_deny
\* for a mapping that was registered and never matched.
C28_DenyOnlyBound ==
    [][last'.op = "uevent_handle" =>
          \A k \in DOMAIN last'.log :
              last'.log[k].call = "container_device_deny" =>
                  /\ <<last'.log[k].args[2], last'.log[k].args[3]>> \in UsbBoundNumbers
                  /\ \E i \in DOMAIN uevent_container_dev_mapping_list :
                         LET m == uevent_container_dev_mapping_list[i]
                         IN /\ m.container = last'.log[k].args[1]
                            /\ m.usbdev.major = last'.log[k].args[2]
                            /\ m.usbdev.minor = last'.log[k].args[3]
      ]_vars

(***************************************************************************)
(* SpecNet: net add events, their timers and the NIC mover                 *)
(***************************************************************************)

\* the states the registry gives a container in this specification
NetStates == {"NONE", "STOPPED", "RUNNING"}

NetContainerChange == \E c \in Containers, cs \in NetStates : ContainerChange(c, cs)

NetRegister == uevent_register_netdev("c1", PnetCfg(TRUE, "m1", <<>>, FALSE))

\* a net add event arrives: the frame is copied and a timer armed
NicAdd ==
    \E m \in {Msg_net_eth, Msg_net_wlan} :
        Receive(Recv(m), HandleEnv(NoSerial, -1, -1, FALSE, QuietProj))

\* what the collaborators answer when a timer fires
NetTimerEnvs ==
    {TimerEnv(w, mac, TRUE, TRUE, TRUE, "exit_0") :
        w \in BOOLEAN, mac \in {NoMac, Mac("m1"), Mac("m2")}}

NicTimer == \E t \in BagToSet(timers), env \in NetTimerEnvs : TimerFire(t, env)

NextNet ==
    \/ Start
    \/ NetContainerChange
    \/ NetRegister
    \/ NicAdd
    \/ NicTimer

SpecNet == Init /\ [][NextNet]_vars

\* the states in which a container takes an interface
LiveStates == {"BOOTING", "RUNNING", "STARTING"}

\* the container a MAC resolves to: that of the first mapping with the MAC,
\* else c0; "NULL" when the registry does not hold it
NetTarget(list, cstate, mac) ==
    LET hits == {i \in DOMAIN list : list[i].mac = mac}
        c == IF hits = {} THEN "c0"
             ELSE list[CHOOSE i \in hits : \A j \in hits : i <= j].container
    IN IF cstate[c] = "NONE" THEN "NULL" ELSE c

\* C4: when a timer fires, the move is attempted and the MAC is read: if the
\* resolved container exists and is BOOTING, RUNNING or STARTING the host
\* interface is renamed and container_add_net_iface is called for that
\* container; otherwise the move returns -1 without renaming or attaching.
C4_MoveWhenLive ==
    [][LET log == last'.log
           mac == ArgsOf(log, "network_get_mac_by_ifname")
           add == ArgsOf(log, "container_add_net_iface")
       IN (/\ last'.op = "uevent_sysfs_netif_timer_cb"
           /\ ArgsOf(log, "uevent_netdev_move") # <<>>
           /\ mac # <<>>
           /\ mac[1][2].ok) =>
              LET c == NetTarget(uevent_container_netdev_mapping_list, container_state,
                                 mac[1][2].mac)
              IN IF c # "NULL" /\ container_state[c] \in LiveStates
                 THEN /\ Len(ArgsOf(log, "network_rename_ifi")) = 1
                      /\ Len(add) = 1
                      /\ add[1][1] = c
                 ELSE /\ ArgsOf(log, "uevent_netdev_move") = <<<<-1>>>>
                      /\ ArgsOf(log, "network_rename_ifi") = <<>>
                      /\ add = <<>>
      ]_vars

\* C6: a firing for a wlan frame asks network_interface_is_wifi once; while
\* the answer is false no move is attempted, nothing is freed and the timer
\* stays armed; when it is true, and for every firing of a frame that is not
\* wlan, one move is attempted, the frame copy is freed and the timer removed.
C6_WlanRetry ==
    [][last'.op = "uevent_sysfs_netif_timer_cb" =>
          LET log == last'.log
              wlan == last'.msg = Msg_net_wlan
              wifi == ArgsOf(log, "network_interface_is_wifi")
              armed == {t \in BagToSet(timers) : BufRead(t, 0, t.msg_len) = last'.msg}
          IN /\ Len(wifi) = IF wlan THEN 1 ELSE 0
             /\ armed # {}
             /\ IF wlan /\ ~wifi[1][2]
                THEN /\ ArgsOf(log, "uevent_netdev_move") = <<>>
                     /\ ArgsOf(log, "mem_free") = <<>>
                     /\ ArgsOf(log, "event_remove_timer") = <<>>
                     /\ timers' = timers
                ELSE /\ Len(ArgsOf(log, "uevent_netdev_move")) = 1
                     /\ ArgsOf(log, "mem_free") = <<<<"uevent_cb">>>>
                     /\ Len(ArgsOf(log, "event_remove_timer")) = 1
                     /\ \E t \in armed : timers' = timers (-) SetToBag({t})
      ]_vars

\* a wlan timer fired with wifi shown: the move was attempted and the wlan
\* timer is gone, while an ethernet timer is still armed
C6_Witness ==
    /\ last.op = "uevent_sysfs_netif_timer_cb"
    /\ last.msg = Msg_net_wlan
    /\ ArgsOf(last.log, "network_interface_is_wifi") = <<<<V_wlan0, TRUE>>>>
    /\ Len(ArgsOf(last.log, "uevent_netdev_move")) = 1
    /\ BagCardinality(timers) = 1
    /\ \A t \in BagToSet(timers) : BufRead(t, 0, t.msg_len) = Msg_net_eth

\* the last firing attempted the move and the move failed
MoveFailed(log) == ArgsOf(log, "uevent_netdev_move") = <<<<-1>>>>

\* C17: a firing in which the move is attempted and fails leaves the timer
\* armed and the frame copy alive.
C17_RetryUntilMoved ==
    [][(last'.op = "uevent_sysfs_netif_timer_cb" /\ MoveFailed(last'.log)) =>
          /\ timers' = timers
          /\ ArgsOf(last'.log, "mem_free") = <<>>
          /\ ArgsOf(last'.log, "event_remove_timer") = <<>>
      ]_vars

\* C17, as the code has it: a firing in which the move is attempted and fails
\* frees the frame copy and removes its timer, as a firing with a successful
\* move does; the other timers stay armed.
C17_FailedMoveEndsTimer ==
    [][(last'.op = "uevent_sysfs_netif_timer_cb" /\ MoveFailed(last'.log)) =>
          /\ ArgsOf(last'.log, "mem_free") = <<<<"uevent_cb">>>>
          /\ ArgsOf(last'.log, "event_remove_timer") = <<<<>>>>
          /\ BagCardinality(timers') = BagCardinality(timers) - 1
          /\ \E t \in BagToSet(timers) :
                 /\ BufRead(t, 0, t.msg_len) = last'.msg
                 /\ timers' = timers (-) SetToBag({t})
      ]_vars

\* the only timer fired for the ethernet frame with the MAC read and c0
\* running: the move failed and no timer is left
C17_Witness ==
    /\ last.op = "uevent_sysfs_netif_timer_cb"
    /\ last.msg = Msg_net_eth
    /\ MoveFailed(last.log)
    /\ ArgsOf(last.log, "network_get_mac_by_ifname") = <<<<V_eth5, Mac("m2")>>>>
    /\ container_state["c0"] = "RUNNING"
    /\ timers = EmptyBag

(***************************************************************************)
(* SpecRoute: the dispatcher over kernel frames, udev frames and the       *)
(* containers of the registry                                              *)
(***************************************************************************)

RouteStates == {"NONE", "STOPPED", "RUNNING"}

RouteContainerChange == \E c \in Containers, cs \in RouteStates : ContainerChange(c, cs)

RouteMsgs ==
    {Msg_synth_c1, Msg_synth_usb_c0, Msg_synth_net_c1, Msg_tty_change, Msg_net_eth,
     Msg_bind, Msg_udev_badmagic, Msg_udev, Msg_lib, Msg_other}

\* what the collaborators of the projector answer, the same for every container
RouteProjs ==
    {ProjQuiet, ProjEnv(FALSE, "created", TRUE, "exit_0"),
     ProjEnv(TRUE, "mknod_fail", TRUE, "exit_0"),
     ProjEnv(TRUE, "created", TRUE, "fork_fail")}

\* what the collaborators of uevent_handle answer: no token claims the device,
\* or token_detach claims it
RouteEnvs ==
    {HandleEnv(NoSerial, -1, -1, FALSE, [c \in Containers |-> e]) : e \in RouteProjs}
        \cup {HandleEnv(NoSerial, -1, 0, FALSE, QuietProj)}

RouteReceive == \E m \in RouteMsgs, env \in RouteEnvs : Receive(Recv(m), env)

NextRoute ==
    \/ Start
    \/ RouteContainerChange
    \/ RouteReceive

SpecRoute == Init /\ [][NextRoute]_vars

\* the coldboot frames of this specification: the container SYNTH_UUID names
\* and the frame with "0" for the uuid
SynthFrames ==
    {[msg |-> Msg_synth_c1, c |-> "c1",
      masked |-> KernelMsg(S_add, V_tty,
          Prop(K_ACTION, S_add) \o Prop(K_DEVPATH, V_tty) \o Prop(K_SUBSYSTEM, V_tty_sub)
          \o Prop(K_SYNTH_UUID, S_zero) \o Prop(K_DEVNAME, V_ttyS0)
          \o Prop(K_MAJOR, V_4) \o Prop(K_MINOR, V_64))],
     [msg |-> Msg_synth_usb_c0, c |-> "c0",
      masked |-> KernelMsg(S_remove, V_usb1,
          Prop(K_ACTION, S_remove) \o Prop(K_DEVPATH, V_usb1) \o Prop(K_SUBSYSTEM, S_usb)
          \o Prop(K_DEVTYPE, S_usb_device) \o Prop(K_DEVNAME, V_usb1)
          \o Prop(K_MAJOR, V_189) \o Prop(K_MINOR, V_3) \o Prop(K_SYNTH_UUID, S_zero))],
     [msg |-> Msg_synth_net_c1, c |-> "c1",
      masked |-> KernelMsg(S_add, V_eth5path,
          Prop(K_ACTION, S_add) \o Prop(K_DEVPATH, V_eth5path) \o Prop(K_SUBSYSTEM, S_net)
          \o Prop(K_SYNTH_UUID, S_zero) \o Prop(K_INTERFACE, V_eth5))]}

\* the USB dispatcher consumed the frame: token_detach claimed it
UsbConsumed(log) ==
    \E k \in DOMAIN log : log[k].call = "cmld_token_detach" /\ log[k].args[2] = 0

\* C1: a coldboot frame that the USB dispatcher does not consume and whose
\* SYNTH_UUID names a container c of the registry goes to the projector once,
\* for c only, as the frame with "0" for the uuid; what is injected is that
\* frame, into c; no timer is armed.
C1_SynthRoute ==
    [][\A f \in SynthFrames :
          (/\ last'.op = "uevent_handle"
           /\ last'.msg = f.msg
           /\ container_state[f.c] # "NONE"
           /\ ~UsbConsumed(last'.log)) =>
              /\ ArgsOf(last'.log, "uevent_device_node_and_forward") = <<<<f.c, f.masked>>>>
              /\ \A k \in DOMAIN last'.log :
                     /\ last'.log[k].call = "inject" =>
                            /\ last'.log[k].args[1] = f.c
                            /\ last'.log[k].args[2] = f.masked
                     /\ last'.log[k].call \in {"fork", "mknod", "unlink"} =>
                            last'.log[k].args[1] = f.c
              /\ ArgsOf(last'.log, "event_add_timer") = <<>>
              /\ timers' = timers
      ]_vars

\* the coldboot frame for c1 arrived with both containers running: a node was
\* made in c1 and the masked frame injected into c1
C1_Witness ==
    /\ last.op = "uevent_handle"
    /\ last.msg = Msg_synth_c1
    /\ container_state = [c \in Containers |-> "RUNNING"]
    /\ Len(ArgsOf(last.log, "mknod")) = 1
    /\ Len(ArgsOf(last.log, "inject")) = 1
    /\ ArgsOf(last.log, "inject")[1][1] = "c1"
    /\ ArgsOf(last.log, "inject")[1][3] = 0

\* the frame is classified as a udev frame and its magic is not FE ED CA FE:
\* the first bytes, as far as the message goes, are those of "libudev"
BadMagicUdev(msg) ==
    LET n == Min(Len(msg), 8)
    IN /\ n > 0
       /\ SubSeq(msg, 1, n) = SubSeq(S_libudev \o <<NUL>>, 1, n)
       /\ \/ Len(msg) < 12
          \/ SubSeq(msg, 9, 12) # <<254, 237, 202, 254>>

\* C7: a frame classified as a udev frame whose magic is wrong changes
\* neither table, arms no timer, forks no injector, makes and unlinks no
\* device node; the frame is freed and the watcher stays installed.
C7_BadMagicNoEffect ==
    [][(last'.op = "uevent_handle" /\ BadMagicUdev(last'.msg)) =>
          /\ UNCHANGED <<uevent_container_dev_mapping_list,
                         uevent_container_netdev_mapping_list, timers, cmld_wlan_idx,
                         cmld_eth_idx, container_state>>
          /\ \A k \in DOMAIN last'.log : last'.log[k].call \in {"WARN", "mem_free"}
          /\ ArgsOf(last'.log, "mem_free") = <<<<"uev">>>>
          /\ uevent_io_event' = "installed"
          /\ uevent_netlink_sock' = "open"
      ]_vars

\* the frame with magic DE AD BE EF arrived with both containers running
C7_Witness ==
    /\ last.op = "uevent_handle"
    /\ last.msg = Msg_udev_badmagic
    /\ container_state = [c \in Containers |-> "RUNNING"]
    /\ ArgsOf(last.log, "WARN") = <<<<"unrecognized message signature">>>>

\* the calls by which the projector acts on a container (its device nodes,
\* the injector child): each names the container as its first argument
ProjectorCalls == {"dir_mkdir_p", "mknod", "container_shift_ids", "unlink", "fork", "inject"}

\* the containers a dispatch acted on through the projector
ProjectedInto(log) ==
    {log[k].args[1] : k \in {j \in DOMAIN log : log[j].call \in ProjectorCalls}}

\* C15: the dispatch of a coldboot frame whose SYNTH_UUID is the uuid of
\* container c projects into no container other than c, whatever the registry
\* holds when the frame arrives, also when it no longer holds c.
C15_SynthOnlyTarget ==
    [][\A f \in SynthFrames :
          (last'.op = "uevent_handle" /\ last'.msg = f.msg) =>
              ProjectedInto(last'.log) \subseteq {f.c}
      ]_vars

(***************************************************************************)
(* SpecRename: uevent_rename_interface on net add frames, the counters     *)
(* advanced by the renames of uevent_init and by earlier calls             *)
(***************************************************************************)

\* uevent_netdev_move calls uevent_rename_interface(uevent) on the frame of a
\* timer, parsed from its first byte; the frame returned is kept in the log
RenameInterface(bytes, env) ==
    LET u == uevent_parse(uevent_new0(bytes, Len(bytes)), 0)
        r == uevent_rename_interface(u, Bundle, env)
    IN Commit([r EXCEPT !.log = @ \o <<Eff("return", <<r.ev>>)>>],
              "uevent_rename_interface", bytes)

RenameMsgs == {Msg_net_eth, Msg_net_eth_typed, Msg_net_wlan, Msg_net_virtual}

RenameCall ==
    \E m \in RenameMsgs, rename_ok \in BOOLEAN, phys_tracked \in BOOLEAN :
        RenameInterface(m, TimerEnv(TRUE, Mac("m1"), rename_ok, phys_tracked, TRUE, "exit_0"))

RenameInit ==
    \E phys \in {<<>>, <<TRUE>>, <<FALSE>>, <<TRUE, FALSE>>}, ok \in BOOLEAN :
        uevent_init(phys, ok, TRUE)

NextRename ==
    \/ RenameInit
    \/ RenameCall

SpecRename == Init /\ [][NextRename]_vars

\* what the frames of this specification say
RenameFrames ==
    {[msg |-> Msg_net_eth, interface |-> V_eth5, dir |-> SubSeq(V_eth5path, 1, 7),
      devtype |-> <<>>],
     [msg |-> Msg_net_eth_typed, interface |-> V_eth5, dir |-> SubSeq(V_eth5path, 1, 7),
      devtype |-> S_eth],
     [msg |-> Msg_net_wlan, interface |-> V_wlan0, dir |-> SubSeq(V_wlan0path, 1, 7),
      devtype |-> S_wlan],
     [msg |-> Msg_net_virtual, interface |-> V_lo, dir |-> SubSeq(V_lopath, 1, Len(V_lopath) - 2),
      devtype |-> <<>>]}

\* the frame the last call of uevent_rename_interface returned
Returned == ArgsOf(last.log, "return")[1][1]

\* the name the last call gave the interface
NewName == ArgsOf(last.log, "network_rename_ifi")[1][2]

RenameSucceeded == last.op = "uevent_rename_interface" /\ ~IsNull(Returned)

\* C5: the frame a successful uevent_rename_interface returns parses to
\* INTERFACE = the new name and DEVPATH = the old DEVPATH with the new name
\* for the old one; ACTION, SUBSYSTEM and DEVTYPE are those of the frame it
\* was called with.
C5_RenamedFrame ==
    \A f \in RenameFrames :
        (RenameSucceeded /\ last.msg = f.msg) =>
            /\ StrOf(Returned, Returned.interface) = NewName
            /\ StrOf(Returned, Returned.devpath) = f.dir \o NewName
            /\ StrOf(Returned, Returned.action) = S_add
            /\ StrOf(Returned, Returned.subsystem) = S_net
            /\ StrOf(Returned, Returned.devtype) = f.devtype

\* C18: the name the rename path generates for an event is "cmlwlan<N>" when
\* the devtype of the event is "wlan" and "cmleth<N>" for every other devtype,
\* an absent one included; N is the counter of that kind before the call.
C18_NameForm ==
    [][\A f \in RenameFrames :
          (last'.op = "uevent_rename_interface" /\ last'.msg = f.msg) =>
              ArgsOf(last'.log, "network_rename_ifi")[1][2]
                  = IF f.devtype = S_wlan THEN S_cml \o S_wlan \o Decimal(cmld_wlan_idx)
                    ELSE S_cml \o S_eth \o Decimal(cmld_eth_idx)
      ]_vars

(***************************************************************************)
(* SpecInject: events for every container, the injector child of each      *)
(* container ending in every way                                           *)
(***************************************************************************)

InjectStates == {"STOPPED", "RUNNING", "BOOTING"}

InjectContainerChange == \E c \in Containers, cs \in InjectStates : ContainerChange(c, cs)

\* the projector of each container makes its node; the child ends as chosen
InjectEnvs ==
    {HandleEnv(NoSerial, -1, -1, FALSE, [c \in Containers |-> ProjEnv(TRUE, "created", TRUE, o[c])]) :
         o \in [Containers -> InjectOutcomes]}

InjectReceive ==
    \E m \in {Msg_tty_change, Msg_synth_c1, Msg_synth_usb_c0}, env \in InjectEnvs : Receive(Recv(m), env)

NextInject ==
    \/ Start
    \/ InjectContainerChange
    \/ InjectReceive

SpecInject == Init /\ [][NextInject]_vars

\* fork succeeded, waitpid returned the child and the child exited with
\* status 0, as the entry of the call says
InjectSucceeded(args) ==
    /\ args[2] > 0
    /\ Len(args[3]) = 1
    /\ args[3][1].ret = args[2]
    /\ args[3][1].exited
    /\ args[3][1].status = 0

\* C16: uevent_inject_into_netns returns 0 when fork succeeded, waitpid
\* returned the child and the child exited with status 0, and -1 in every
\* other case; the dispatch goes on after a failure: every container in a
\* projected state that the event is for gets its call, the frame is freed and the watcher stays
\* installed.
C16_InjectReturn ==
    [][last'.op = "uevent_handle" =>
          /\ \A k \in DOMAIN last'.log :
                 last'.log[k].call = "uevent_inject_into_netns" =>
                     last'.log[k].args[4] = IF InjectSucceeded(last'.log[k].args) THEN 0 ELSE -1
          /\ last'.msg = Msg_tty_change =>
                 {a[1] : a \in {ArgsOf(last'.log, "uevent_inject_into_netns")[i] :
                                    i \in 1..Len(ArgsOf(last'.log, "uevent_inject_into_netns"))}}
                     = {c \in Containers : projector_state_ok(container_state[c])}
          /\ last'.log[Len(last'.log)] = Eff("mem_free", <<"uev">>)
          /\ uevent_io_event' = "installed"
      ]_vars

\* an event for both running containers: the child of c0 exited with status
\* 1, the call returned -1 and c1 got its injection, which returned 0
C16_Witness ==
    /\ last.op = "uevent_handle"
    /\ last.msg = Msg_tty_change
    /\ container_state = [c \in Containers |-> "RUNNING"]
    /\ ArgsOf(last.log, "uevent_inject_into_netns")
           = <<<<"c0", CHILD_PID, <<[ret |-> CHILD_PID, exited |-> TRUE, status |-> 1]>>, -1>>,
               <<"c1", CHILD_PID, <<[ret |-> CHILD_PID, exited |-> TRUE, status |-> 0]>>, 0>>>>

(***************************************************************************)
(* SpecCodec: uevent_replace_member on parsed kernel and udev frames       *)
(***************************************************************************)

\* sizeof(msg.raw): the capacity of the frame buffer, 8 KiB
UEVENT_BUF_LEN == 8192

\* where the entries of a received frame start, as uevent_handle finds it:
\* properties_off of a udev frame, behind the ACTION@DEVPATH line otherwise
frame_start(uev) ==
    IF is_udev_frame(uev) THEN U32At(uev, NLH_PROPERTIES_OFF_OFF)[1]
    ELSE strlen_at(uev, 0) + 1

\* the frame as uevent_handle hands it to its handlers: received into a
\* zeroed struct and parsed from the start of its entries
frame_parsed(bytes) ==
    LET uev == uevent_new0(bytes, Len(bytes))
    IN uevent_parse(uev, frame_start(uev))

\* the ASSERT at the head of uevent_replace_member: oldmember points into
\* the message
replace_member_assert(u, oldmember) == oldmember > 0 /\ oldmember < u.msg_len

\* the end of the highest write of uevent_replace_member into newevent->msg.raw:
\* the header copy, the new member with its NUL, the tail
replace_member_extent(u, oldmember, newmember) ==
    LET off_after_old == oldmember + strlen_at(u, oldmember) + 1
        off_after_new == oldmember + Len(newmember) + 1
    IN Max(NLH_SIZE, Max(off_after_new, off_after_new + (u.msg_len - off_after_old)))

\* how a call that wrote behind msg.raw can go on: the bytes landed in the
\* members behind raw and in the heap; the call returns its frame or the
\* process dies
OverflowOutcomes == {"returns", "crash"}

\* a call uevent_replace_member(uevent, uevent-><member>, newmember) on the
\* parsed frame of bytes; the call, its writes behind the buffer and the
\* frame it returns are kept in the log
ReplaceMember(bytes, member, newmember, outcome) ==
    LET u == frame_parsed(bytes)
        oldmember == u[member]
        call == Eff("uevent_replace_member", <<u, oldmember, newmember>>)
        extent == replace_member_extent(u, oldmember, newmember)
        ret == Eff("return", <<uevent_replace_member(u, oldmember, newmember)>>)
        log == IF ~replace_member_assert(u, oldmember) THEN <<call, Eff("ASSERT", <<"abort">>)>>
               ELSE IF extent <= UEVENT_BUF_LEN THEN <<call, ret>>
               ELSE IF outcome = "returns"
               THEN <<call, Eff("write_behind_raw", <<UEVENT_BUF_LEN, extent>>), ret>>
               ELSE <<call, Eff("write_behind_raw", <<UEVENT_BUF_LEN, extent>>),
                      Eff("SIGSEGV", <<>>)>>
    IN /\ last' = Last("uevent_replace_member", 0, bytes, log)
       /\ UNCHANGED <<uevent_netlink_sock, uevent_io_event,
                      uevent_container_dev_mapping_list,
                      uevent_container_netdev_mapping_list, cmld_wlan_idx, cmld_eth_idx,
                      timers, container_state>>

\* the char * members of struct uevent that uevent_parse sets
StringMembers ==
    {"action", "devpath", "subsystem", "devname", "devtype", "product",
     "id_serial_short", "interface", "synth_uuid"}

\* the numeric members that uevent_parse sets
NumberMembers == {"major", "minor", "id_vendor_id", "id_model_id"}

V_cmleth0 == <<99, 109, 108, 101, 116, 104, 48>>  \* "cmleth0"
V_long == <<47, 100, 47, 110, 101, 116, 47, 99, 109, 108, 119, 108, 97, 110, 49, 50>>  \* "/d/net/cmlwlan12"

\* the replacements: empty, shorter, as long as, and longer than the values
\* of the frames
CodecValues == {<<>>, S_zero, V_eth5, V_cmleth0, V_long}

\* a udev frame of a physical interface
Msg_udev_net ==
    UdevMsg(UDEV_MONITOR_MAGIC_NET,
        Prop(K_ACTION, S_add) \o Prop(K_DEVPATH, V_eth5path) \o Prop(K_SUBSYSTEM, S_net)
        \o Prop(K_INTERFACE, V_eth5))

\* a kernel frame shorter than the netlink header
Msg_short == KernelMsg(S_add, V_B, Prop(K_INTERFACE, V_lo) \o Prop(K_MAJOR, V_4))

\* n bytes of entries X=xx..x that uevent_parse skips, 1024 bytes each and a
\* last one of what is left (n is 0 or at least 4)
RECURSIVE Padding(_)
Padding(n) ==
    IF n = 0 THEN <<>>
    ELSE IF n <= 1027 THEN <<88, 61>> \o [i \in 1..(n - 3) |-> 120] \o <<NUL>>
    ELSE <<88, 61>> \o [i \in 1..1021 |-> 120] \o <<NUL>> \o Padding(n - 1024)

\* the longest message nl_msg_receive_kernel delivers: UEVENT_BUF_LEN - 1 bytes
Msg_full == Msg_net_eth \o Padding(UEVENT_BUF_LEN - 1 - Len(Msg_net_eth))

\* a kernel frame that names the driver of the device
Msg_usb_driver ==
    KernelMsg(S_add, V_usb1,
        Prop(K_ACTION, S_add) \o Prop(K_DEVPATH, V_usb1) \o Prop(K_SUBSYSTEM, S_usb)
        \o Prop(K_DRIVER, S_usb))

CodecMsgs ==
    {Msg_usb_add, Msg_usb_add_ids, Msg_synth_c1, Msg_synth_usb_c0, Msg_net_eth,
     Msg_net_wlan, Msg_udev, Msg_udev_net, Msg_short, Msg_full, Msg_usb_driver}

\* the inputs of one call: a frame, the member to replace, its new value and,
\* for a call that writes behind the buffer, how it goes on
CodecInputs ==
    {<<m, member, new, outcome>> \in
         CodecMsgs \X StringMembers \X CodecValues \X OverflowOutcomes :
             outcome = "returns" \/ Len(m) + Len(new) > UEVENT_BUF_LEN}

CodecInit ==
    /\ uevent_netlink_sock = "NULL"
    /\ uevent_io_event = "NULL"
    /\ uevent_container_dev_mapping_list = <<>>
    /\ uevent_container_netdev_mapping_list = <<>>
    /\ cmld_wlan_idx = 0
    /\ cmld_eth_idx = 0
    /\ timers = EmptyBag
    /\ container_state = [c \in Containers |-> "STOPPED"]
    /\ \E in \in CodecInputs : last = Last("input", 0, in[1], <<Eff("input", <<in[2], in[3], in[4]>>)>>)

CodecReplace ==
    /\ last.op = "input"
    /\ ReplaceMember(last.msg, last.log[1].args[1], last.log[1].args[2],
                     last.log[1].args[3])

NextCodec == CodecReplace

SpecCodec == CodecInit /\ [][NextCodec]_vars

\* the last step was a call of uevent_replace_member that returned
Replaced ==
    /\ last.op = "uevent_replace_member"
    /\ Len(ArgsOf(last.log, "return")) = 1

\* the frame, the old member and the new value of the last call
ReplacedFrame == last.log[1].args[1]

ReplacedOld == last.log[1].args[2]

ReplacedNew == last.log[1].args[3]

\* the frame the last call returned
ReplacedReturn == ArgsOf(last.log, "return")[1][1]

\* the last call wrote inside msg.raw only
ReplacedFits == Len(ArgsOf(last.log, "write_behind_raw")) = 0

\* C11: a rewrite that stays inside the buffer returns a frame whose msg_len
\* is that of the input plus len(new) minus len(old), whose bytes before the
\* offset of old are those of the input, whose bytes at that offset are new
\* and a NUL, and whose bytes behind that are the bytes of the input behind
\* the NUL of old.
C11_RewriteBytes ==
    (Replaced /\ ReplacedFits) =>
        LET F == ReplacedFrame
            R == ReplacedReturn
            old == ReplacedOld
            n == strlen_at(F, old)
            after_new == old + Len(ReplacedNew) + 1
        IN /\ R.msg_len = F.msg_len + Len(ReplacedNew) - n
           /\ BufRead(R, 0, old) = BufRead(F, 0, old)
           /\ BufRead(R, old, Len(ReplacedNew) + 1) = ReplacedNew \o <<NUL>>
           /\ BufRead(R, after_new, R.msg_len - after_new)
                  = BufRead(F, old + n + 1, F.msg_len - (old + n + 1))

\* DEVPATH of the usb add frame was replaced by a longer value, with entries
\* before and behind it
C11_Witness ==
    /\ Replaced
    /\ last.msg = Msg_usb_add
    /\ StrOf(ReplacedFrame, ReplacedOld) = V_usb1
    /\ ReplacedOld = ReplacedFrame.devpath
    /\ ReplacedNew = V_long
    /\ ReplacedReturn.msg_len = Len(Msg_usb_add) + 9

\* the header members of a frame other than properties_len: prefix, magic,
\* header_size, properties_off and the four filter hashes
HeaderRest(u) == BufRead(u, 0, NLH_PROPERTIES_LEN_OFF) \o BufRead(u, NLH_PROPERTIES_LEN_OFF + 4, 16)

\* C12: the frame a rewrite returns has properties_len = that of the input
\* plus len(new) minus len(old), whatever the offset of old, and every other
\* member of the header as in the input.
C12_HeaderDelta ==
    (Replaced /\ ReplacedFits) =>
        /\ U32At(ReplacedReturn, NLH_PROPERTIES_LEN_OFF)
               = U32Add(U32At(ReplacedFrame, NLH_PROPERTIES_LEN_OFF),
                        Len(ReplacedNew) - strlen_at(ReplacedFrame, ReplacedOld))
        /\ HeaderRest(ReplacedReturn) = HeaderRest(ReplacedFrame)

\* the view of a frame parsed from the start of its entries: the strings and
\* the numbers uevent_parse sets
ViewOf(u) ==
    LET g == uevent_parse(u, frame_start(u))
    IN [m \in StringMembers \cup NumberMembers |->
            IF m \in StringMembers THEN StrOf(g, g[m]) ELSE g[m]]

\* C13: parsing the frame a rewrite returns gives the new value for the
\* member that was replaced and, for every other member, the value the input
\* frame parses to; for a kernel frame the view the call itself returns says
\* the same.
C13_RewriteParse ==
    (Replaced /\ ReplacedFits) =>
        LET F == ReplacedFrame
            R == ReplacedReturn
            V == ViewOf(R)
        IN /\ \A m \in StringMembers :
                  V[m] = IF F[m] = ReplacedOld THEN ReplacedNew ELSE StrOf(F, F[m])
           /\ \A m \in NumberMembers : V[m] = F[m]
           /\ ~is_udev_frame(F) =>
                  /\ \A m \in StringMembers : StrOf(R, R[m]) = V[m]
                  /\ \A m \in NumberMembers : R[m] = V[m]

\* SYNTH_UUID of the coldboot frame was replaced by "0": the returned frame
\* parses to SYNTH_UUID 0 and still to its DEVNAME and numbers
C13_Witness ==
    /\ Replaced
    /\ last.msg = Msg_synth_c1
    /\ ReplacedOld = ReplacedFrame.synth_uuid
    /\ ReplacedNew = S_zero
    /\ ViewOf(ReplacedReturn)["synth_uuid"] = S_zero
    /\ ViewOf(ReplacedReturn)["devname"] = V_ttyS0
    /\ ViewOf(ReplacedReturn)["minor"] = 64

\* C14: a rewrite whose msg_len would exceed UEVENT_BUF_LEN returns no frame
\* and writes no byte behind the buffer.
C14_OversizeFails ==
    (/\ last.op = "uevent_replace_member"
     /\ Len(ArgsOf(last.log, "ASSERT")) = 0
     /\ ReplacedFrame.msg_len + Len(ReplacedNew)
            - strlen_at(ReplacedFrame, ReplacedOld) > UEVENT_BUF_LEN) =>
        /\ ReplacedFits
        /\ ArgsOf(last.log, "return") = <<<<NULLEV>>>>

\* the key of each member uevent_parse sets from an entry
KeyOf ==
    [action |-> K_ACTION, devpath |-> K_DEVPATH, subsystem |-> K_SUBSYSTEM,
     devname |-> K_DEVNAME, devtype |-> K_DEVTYPE, driver |-> K_DRIVER,
     product |-> K_PRODUCT, id_serial_short |-> K_ID_SERIAL_SHORT,
     interface |-> K_INTERFACE, synth_uuid |-> K_SYNTH_UUID, major |-> K_MAJOR,
     minor |-> K_MINOR, id_vendor_id |-> K_ID_VENDOR_ID, id_model_id |-> K_ID_MODEL_ID]

\* no entry of the frame from offset p on starts with the key
KeyAbsent(u, p, key) ==
    \A q \in p..(u.msg_len - 1) :
        (q = p \/ ByteAt(u, q - 1) = NUL) => ~HasKey(u, q, key)

\* the view uevent_parse leaves for the frame u read from offset p has the
\* default of every member whose key the frame does not hold: the literal ""
\* for the strings named, -1 for major and minor, 0 for the two ids
ParseDefaults(u, p, strings) ==
    /\ \A m \in strings : KeyAbsent(u, p, KeyOf[m]) => u[m] = EMPTY
    /\ \A m \in {"major", "minor"} : KeyAbsent(u, p, KeyOf[m]) => u[m] = -1
    /\ \A m \in {"id_vendor_id", "id_model_id"} : KeyAbsent(u, p, KeyOf[m]) => u[m] = 0

\* the members of two views are equal
SameView(u, v, strings) ==
    \A m \in strings \cup NumberMembers : u[m] = v[m]

\* C24: after uevent_parse, whatever the view held before, every string
\* member whose key the frame does not hold (driver among them) is the empty
\* string, major and minor are -1 and the two ids 0 when absent; the parse of
\* the received frame (into a zeroed view) and the parse of the same bytes
\* into a view that was not initialised give equal views.
C24_ParseDefaults ==
    (Replaced /\ ReplacedFits) =>
        LET F == ReplacedFrame
            R == ReplacedReturn
            again == uevent_parse([uevent_new EXCEPT !.raw = F.raw, !.msg_len = F.msg_len],
                                  frame_start(F))
            all == StringMembers \cup {"driver"}
        IN /\ ParseDefaults(F, frame_start(F), all)
           /\ ~is_udev_frame(F) => ParseDefaults(R, 0, all)
           /\ SameView(F, again, all)

(***************************************************************************)
(* SpecFilter: kernel frames whose ACTION, SUBSYSTEM or DEVTYPE is, starts  *)
(* with, or is none of the strings the handlers compare with               *)
(***************************************************************************)

V_added == <<97, 100, 100, 101, 100>>  \* "added"
V_removed == <<114, 101, 109, 111, 118, 101, 100>>  \* "removed"
V_usbmisc == <<117, 115, 98, 109, 105, 115, 99>>  \* "usbmisc"
V_usb_device_x == <<117, 115, 98, 95, 100, 101, 118, 105, 99, 101, 95, 120>>  \* "usb_device_x"
V_usb_interface == <<117, 115, 98, 95, 105, 110, 116, 101, 114, 102, 97, 99, 101>>  \* "usb_interface"

\* a kernel frame of a device 189:3 named usb1
FilterMsg(action, subsystem, devtype) ==
    KernelMsg(action, V_usb1,
        Prop(K_ACTION, action) \o Prop(K_DEVPATH, V_usb1) \o Prop(K_SUBSYSTEM, subsystem)
        \o Prop(K_DEVTYPE, devtype) \o Prop(K_PRODUCT, V_product) \o Prop(K_DEVNAME, V_usb1)
        \o Prop(K_MAJOR, V_189) \o Prop(K_MINOR, V_3))

FilterMsgs ==
    {FilterMsg(a, sd[1], sd[2]) :
         a \in {S_add, S_remove, V_added, V_removed, V_bind},
         sd \in {<<S_usb, S_usb_device>>, <<V_usbmisc, S_usb_device>>,
                 <<S_usb, V_usb_device_x>>, <<S_usb, V_usb_interface>>,
                 <<V_tty_sub, S_usb_device>>}}
        \cup {KernelMsg(V_added, V_eth5path,
                  Prop(K_ACTION, V_added) \o Prop(K_DEVPATH, V_eth5path)
                  \o Prop(K_SUBSYSTEM, S_net) \o Prop(K_INTERFACE, V_eth5))}

FilterContainerChange == \E cs \in {"STOPPED", "RUNNING"} : ContainerChange("c0", cs)

FilterRegister == uevent_register_usbdevice("c0", dev_A)

\* the serial file of the device holds the serial of dev_A; the token
\* subsystem claims the device or not
FilterEnvs ==
    {HandleEnv(Serial(V_A1 \o <<10>>), -1, -1, FALSE, QuietProj),
     HandleEnv(Serial(V_A1 \o <<10>>), 0, 0, FALSE, QuietProj)}

FilterReceive == \E m \in FilterMsgs, env \in FilterEnvs : Receive(Recv(m), env)

NextFilter ==
    \/ Start
    \/ FilterContainerChange
    \/ FilterRegister
    \/ FilterReceive

SpecFilter == Init /\ [][NextFilter]_vars

\* the calls of the USB dispatcher
UsbDispatchCalls ==
    {"cmld_token_attach", "cmld_token_detach", "file_read_new", "container_device_allow",
     "container_device_deny"}

\* C19: a kernel frame whose ACTION is none of "add", "remove", "change" has
\* no effect: no call of the USB dispatcher, of the projector or of the
\* injector, no timer, no change of a table; the frame is freed.
C19_ActionExact ==
    [][(/\ last'.op = "uevent_handle"
        /\ last'.msg \in FilterMsgs
        /\ ViewOf(uevent_new0(last'.msg, Len(last'.msg)))["action"]
               \notin {S_add, S_remove, S_change}) =>
          /\ last'.log = <<Eff("TRACE", <<"kernel uevent">>), Eff("mem_free", <<"uev">>)>>
          /\ UNCHANGED <<uevent_container_dev_mapping_list,
                         uevent_container_netdev_mapping_list, timers>>
      ]_vars

\* C20: the USB dispatcher acts on a frame (token attach or detach, the read
\* of the serial, a change of a mapping, device_allow, device_deny) only when
\* its SUBSYSTEM is "usb" and its DEVTYPE is "usb_device".
C20_UsbExact ==
    [][(/\ last'.op = "uevent_handle"
        /\ last'.msg \in FilterMsgs
        /\ LET v == ViewOf(uevent_new0(last'.msg, Len(last'.msg)))
           IN ~(v["subsystem"] = S_usb /\ v["devtype"] = S_usb_device)) =>
          /\ \A k \in DOMAIN last'.log : last'.log[k].call \notin UsbDispatchCalls
          /\ UNCHANGED uevent_container_dev_mapping_list
      ]_vars

(***************************************************************************)
(* SpecHandle: uevent_handle over what nl_msg_receive_kernel can give: a   *)
(* message of any length and content, nothing, or an error                 *)
(***************************************************************************)

\* the seven bytes of the udev prefix, and nothing else
Msg_libudev7 == S_libudev

\* a message whose first token starts with "libudev", goes on and holds '@'
Msg_libudevx == S_libudev \o <<88>> \o Msg_tty_change

\* a message whose first token holds no '@' and whose second does
Msg_late_at == V_hello \o <<NUL>> \o Msg_tty_change

V_dev_ttyS0 == S_dev \o V_ttyS0  \* "/dev/ttyS0"
V_devx == <<47, 100, 101, 118, 120>>  \* "/devx"
V_dev == <<47, 100, 101, 118>>  \* "/dev"

\* the DEVNAME values of the node frames
NodeNames == {V_dev_ttyS0, V_ttyS0, V_devx, V_dev}

\* a kernel frame for the device 4:64 with the given ACTION and DEVNAME
NodeMsg(action, devname) ==
    KernelMsg(action, V_tty,
        Prop(K_ACTION, action) \o Prop(K_DEVPATH, V_tty) \o Prop(K_SUBSYSTEM, V_tty_sub)
        \o Prop(K_DEVNAME, devname) \o Prop(K_MAJOR, V_4) \o Prop(K_MINOR, V_64))

NodeMsgs == {NodeMsg(a, d) : a \in {S_add, S_remove}, d \in NodeNames}

HandleMsgs ==
    {Msg_lib, Msg_libudev7, Msg_libudevx, Msg_late_at, Msg_other, Msg_udev,
     Msg_udev_badmagic, Msg_tty_change, Msg_synth_c1} \cup NodeMsgs

\* nl_msg_receive_kernel returned -1 or 0: the buffer is as mem_new0 left it,
\* or holds the message the call read before it failed (one that no branch
\* forwards: the length of a forwarded frame would be msg_len)
FailedRecvs ==
    {[ret |-> r, bytes |-> b] : r \in {-1, 0}, b \in {<<>>, Msg_bind, Msg_udev}}

HandleRecvs == {Recv(m) : m \in HandleMsgs} \cup FailedRecvs

HandleStates == {"STOPPED", "STARTING", "BOOTING", "RUNNING", "SETUP"}

HandleContainerChange == \E c \in Containers, cs \in HandleStates : ContainerChange(c, cs)

\* the cgroup policy of each container allows the device or forbids it
HandleEnvs ==
    {HandleEnv(NoSerial, -1, -1, FALSE,
               [c \in Containers |-> ProjEnv(c \in A, "created", TRUE, "exit_0")]) :
         A \in SUBSET Containers}

\* the event loop calls uevent_handle; last.ret keeps what the receive returned
HandleReceive ==
    \E recv \in HandleRecvs, env \in HandleEnvs :
        /\ uevent_io_event = "installed"
        /\ Commit([uevent_handle(recv, Bundle, env) EXCEPT !.ret = recv.ret],
                  "uevent_handle", recv.bytes)

NextHandle ==
    \/ Start
    \/ HandleContainerChange
    \/ HandleReceive

SpecHandle == Init /\ [][NextHandle]_vars

\* the dispatch took the udev branch: one of its two warnings, or the call of
\* handle_udev_event
UdevTreated(log) ==
    \E k \in DOMAIN log :
        \/ log[k] = Eff("WARN", <<"unrecognized message signature">>)
        \/ log[k] = Eff("WARN", <<"message smaller than expected">>)
        \/ log[k] = Eff("TRACE", <<"handle_udev_event">>)

\* the dispatch called handle_kernel_event
KernelPassed(log) == \E k \in DOMAIN log : log[k] = Eff("TRACE", <<"kernel uevent">>)

\* the bytes of a message before its first NUL
RECURSIVE FirstToken(_)
FirstToken(msg) ==
    IF msg = <<>> \/ Head(msg) = NUL THEN <<>> ELSE <<Head(msg)>> \o FirstToken(Tail(msg))

\* C21: a received message is treated as a udev frame if and only if its
\* first 7 bytes are "libudev"; one that is not is passed to the kernel
\* handler if and only if its first token holds '@'; a udev frame is never
\* passed to the kernel handler.
C21_Classify ==
    [][(last'.op = "uevent_handle" /\ last'.ret > 0) =>
          LET udev == Len(last'.msg) >= 7 /\ SubSeq(last'.msg, 1, 7) = S_libudev
          IN /\ UdevTreated(last'.log) <=> udev
             /\ ~udev => (KernelPassed(last'.log) <=> strchr_found(FirstToken(last'.msg), 64))
             /\ udev => ~KernelPassed(last'.log)
      ]_vars

\* the calls of the projector that name the path of the device node
NodeCalls == {"mknod", "container_shift_ids", "unlink"}

\* C22: the path of the device node is rootdir + devname when devname starts
\* with the five characters "/dev/", and rootdir + "/dev/" + devname for
\* every other devname.
C22_NodePath ==
    [][(last'.op = "uevent_handle" /\ last'.msg \in NodeMsgs) =>
          LET d == ViewOf(uevent_new0(last'.msg, Len(last'.msg)))["devname"]
              rel == IF Len(d) >= 5 /\ SubSeq(d, 1, 5) = S_dev THEN d ELSE S_dev \o d
          IN \A k \in DOMAIN last'.log :
                 last'.log[k].call \in NodeCalls =>
                     last'.log[k].args[2] = container_get_rootdir(last'.log[k].args[1]) \o rel
      ]_vars

\* the cgroup policy forbade the device of the frame for container c
DeviceForbidden(log, c) ==
    \E k \in DOMAIN log : /\ log[k].call = "container_is_device_allowed"
                          /\ log[k].args[1] = c
                          /\ log[k].args[4] = FALSE

\* C23: for a container that is in none of the states BOOTING, RUNNING,
\* SETUP, or whose cgroup policy forbids (major, minor), the projector makes
\* and unlinks no node and forks no injector.
C23_ProjectorGate ==
    [][last'.op = "uevent_handle" =>
          \A c \in Containers :
              (container_state[c] \notin {"BOOTING", "RUNNING", "SETUP"}
                   \/ DeviceForbidden(last'.log, c)) =>
                  c \notin ProjectedInto(last'.log)
      ]_vars

\* an add frame arrived while c0 was starting and c1 running: the node was
\* made in c1 only
C23_Witness ==
    /\ last.op = "uevent_handle"
    /\ last.msg = NodeMsg(S_add, V_ttyS0)
    /\ container_state["c0"] = "STARTING"
    /\ container_state["c1"] = "RUNNING"
    /\ ProjectedInto(last.log) = {"c1"}

\* C25: when nl_msg_receive_kernel returns a negative value or 0, the handler
\* logs the warning 'could not read uevent', takes no branch of the
\* classification, parses nothing, frees the frame and returns.
C25_RecvError ==
    [][(last'.op = "uevent_handle" /\ last'.ret <= 0) =>
          /\ last'.log = <<Eff("WARN", <<"could not read uevent">>), Eff("mem_free", <<"uev">>)>>
          /\ UNCHANGED <<uevent_container_dev_mapping_list,
                         uevent_container_netdev_mapping_list, timers>>
      ]_vars

(***************************************************************************)
(* SpecNames: the calls of uevent_rename_ifi_new of one process lifetime,  *)
(* those of uevent_init and those for NIC events, with the names they      *)
(* generated kept in call order                                            *)
(***************************************************************************)

\* the calls for wireless interfaces the model follows
MaxNames == 11

V_wlan1 == <<119, 108, 97, 110, 49>>  \* "wlan1"

\* the DEVTYPE of a NIC event, handed on as the infix: "wlan", none, or a
\* devtype that ends in a digit
NameInfixes == {S_wlan, <<>>, V_wlan1}

\* the names the calls logged so far generated: uevent_init leaves one
\* network_rename_ifi per interface, a later call its asprintf
NamesOf(log) ==
    LET calls == SelectSeq(log, LAMBDA e : e.call \in {"network_rename_ifi", "asprintf"})
    IN [k \in DOMAIN calls |->
           IF calls[k].call = "network_rename_ifi" THEN calls[k].args[2] ELSE calls[k].args[1]]

\* uevent_init at the start of the process: it renames the physical interfaces
NamesStart ==
    /\ uevent_netlink_sock = "NULL"
    /\ \E phys \in {<<>>, <<TRUE>>, <<FALSE>>, <<TRUE, FALSE>>} : uevent_init(phys, TRUE, TRUE)

\* uevent_rename_ifi_new(oldname, infix) for a NIC event; the host rename
\* succeeds or fails; the log goes on from that of the calls before
NamesCall ==
    \E infix \in NameInfixes, rename_ok \in BOOLEAN :
        LET r == uevent_rename_ifi_new(V_eth5, infix, Bundle, rename_ok)
        IN /\ uevent_io_event = "installed"
           /\ r.wlan_idx <= MaxNames /\ r.eth_idx <= MaxIdx
           /\ cmld_wlan_idx' = r.wlan_idx
           /\ cmld_eth_idx' = r.eth_idx
           /\ last' = Last("uevent_rename_ifi_new", IF rename_ok THEN 0 ELSE -1, <<>>,
                           last.log \o <<Eff("asprintf", <<r.log[1].args[2]>>)>>)
           /\ UNCHANGED <<uevent_netlink_sock, uevent_io_event,
                          uevent_container_dev_mapping_list,
                          uevent_container_netdev_mapping_list, timers, container_state>>

NextNames ==
    \/ NamesStart
    \/ NamesCall

SpecNames == Init /\ [][NextNames]_vars

\* C26: across the calls of uevent_rename_ifi_new of one process lifetime,
\* whatever their infix and whether or not the host rename succeeds, neither
\* counter ever decreases or is reset, and no two calls generate the same
\* interface name.
C26_UniqueNames ==
    [][/\ cmld_wlan_idx' >= cmld_wlan_idx
       /\ cmld_eth_idx' >= cmld_eth_idx
       /\ \A i, j \in DOMAIN NamesOf(last'.log) :
              i # j => NamesOf(last'.log)[i] # NamesOf(last'.log)[j]
      ]_vars

(***************************************************************************)
(* SpecMove: a NIC timer armed by a net add event, and the NET table       *)
(* changed by register and unregister before the timer fires               *)
(***************************************************************************)

MoveContainerChange ==
    \E c \in Containers, cs \in {"STOPPED", "RUNNING"} : ContainerChange(c, cs)

MoveRegister ==
    \E c \in Containers, m \in {"m1", "m2"} :
        uevent_register_netdev(c, PnetCfg(TRUE, m, <<>>, FALSE))

MoveUnregister == \E c \in Containers : uevent_unregister_netdev(c, "m1")

\* a net add event arrives: the frame is copied and a timer armed
MoveNicAdd == Receive(Recv(Msg_net_eth), HandleEnv(NoSerial, -1, -1, FALSE, QuietProj))

\* a timer fires: the interface has the MAC m1 or m2
MoveTimer ==
    \E t \in BagToSet(timers), m \in {"m1", "m2"} :
        TimerFire(t, TimerEnv(TRUE, Mac(m), TRUE, TRUE, TRUE, "exit_0"))

NextMove ==
    \/ Start
    \/ MoveContainerChange
    \/ MoveRegister
    \/ MoveUnregister
    \/ MoveNicAdd
    \/ MoveTimer

SpecMove == Init /\ [][NextMove]_vars

\* the MAC the mover read in this firing
MovedMac(log) == ArgsOf(log, "network_get_mac_by_ifname")[1][2].mac

\* the container the mover resolved in this firing: the one whose state it
\* asked for
MoveResolved(log) == ArgsOf(log, "container_get_state")[1][1]

\* the container of the first mapping of the table with the MAC, else c0
RECURSIVE TableTarget(_, _)
TableTarget(list, mac) ==
    IF list = <<>> THEN "c0"
    ELSE IF Head(list).mac = mac THEN Head(list).container
    ELSE TableTarget(Tail(list), mac)

\* C27: the target of a NIC move is resolved from the NET table as it is when
\* the timer fires: the container of the first mapping in list order with the
\* MAC of the interface, else c0, whatever the table was when the event was
\* received; the timer keeps the frame only.
C27_ResolveAtFire ==
    [][last'.op = "uevent_sysfs_netif_timer_cb" =>
          /\ MoveResolved(last'.log) = TableTarget(uevent_container_netdev_mapping_list,
                                                   MovedMac(last'.log))
          /\ \A t \in BagToSet(timers) :
                 BufRead(t, 0, t.msg_len) = Msg_net_eth /\ t.raw = Msg_net_eth
      ]_vars

\* a timer fired for the MAC m1 with the table holding a mapping of c1 and,
\* behind it, one of c0 for that MAC: the mover resolved c1
C27_Witness ==
    /\ last.op = "uevent_sysfs_netif_timer_cb"
    /\ Len(uevent_container_netdev_mapping_list) = 2
    /\ uevent_container_netdev_mapping_list[1].container = "c1"
    /\ uevent_container_netdev_mapping_list[1].mac = "m1"
    /\ uevent_container_netdev_mapping_list[2].container = "c0"
    /\ uevent_container_netdev_mapping_list[2].mac = "m1"
    /\ MovedMac(last.log) = "m1"
    /\ MoveResolved(last.log) = "c1"

(***************************************************************************)
(* SpecLife: uevent_init and uevent_deinit in every order, the socket      *)
(* opening or not, its fd made non-blocking or not, over the two tables    *)
(***************************************************************************)

LifeInit == \E sock_ok \in BOOLEAN, nonblock_ok \in BOOLEAN : uevent_init(<<>>, sock_ok, nonblock_ok)

LifeDeinit == \E outcome \in {"returns", "crash"} : uevent_deinit(outcome)

NextLife ==
    \/ LifeInit
    \/ LifeDeinit
    \/ RegisterUsb
    \/ UnregisterUsb
    \/ RegisterNet
    \/ BindUsb

SpecLife == Init /\ [][NextLife]_vars

\* the call of uevent_init failed with one of its two 'already exists' errors
AlreadyExists(l) ==
    /\ l.op = "uevent_init"
    /\ l.ret = -1
    /\ \E k \in DOMAIN l.log :
           /\ l.log[k].call = "ERROR"
           /\ l.log[k].args[1] \in {"Uevent netlink_socket already exists.",
                                    "Uevent io_event already exists."}

\* the call of uevent_init got a socket and made its fd non-blocking
SocketReady(l) ==
    /\ l.op = "uevent_init"
    /\ \E k \in DOMAIN l.log : l.log[k] = Eff("fd_make_non_blocking", <<TRUE>>)

\* C29: uevent_init fails with 'already exists' only while the router is
\* initialised (socket open, watcher installed): after uevent_deinit, or after
\* a uevent_init that failed in fd_make_non_blocking, a uevent_init for which
\* the socket opens returns 0 and installs the watcher; the module never keeps
\* a pointer to a socket or a watcher it has freed.
C29_InitAfterTeardown ==
    [][/\ AlreadyExists(last') =>
              (uevent_netlink_sock = "open" /\ uevent_io_event = "installed")
       /\ (last'.op = "uevent_init"
              /\ ~(uevent_netlink_sock = "open" /\ uevent_io_event = "installed")) =>
              \/ \E k \in DOMAIN last'.log :
                     last'.log[k] \in {Eff("nl_sock_uevent_new", <<FALSE>>),
                                       Eff("fd_make_non_blocking", <<FALSE>>)}
              \/ (SocketReady(last') /\ last'.ret = 0 /\ uevent_io_event' = "installed")
       /\ uevent_netlink_sock' # "freed"
       /\ uevent_io_event' # "freed"
      ]_vars

=============================================================================
